---- MODULE Spec2Model ----
(***************************************************************************)
(* Session coordinator of playwright-mcp (src/lib/context.js, class        *)
(* Context) and the quiescence waiter (tools/utils.js, waitForCompletion). *)
(*                                                                         *)
(* The specifications share the variables:                                 *)
(*   Spec        handle provider, tab registry, close and restart; the     *)
(*               snapshot a preserving restart captures is not followed    *)
(*   SpecTabs    tab registry under sequential newTab/selectTab/closeTab   *)
(*   SpecRace    run() and the race of a tool action against a dialog      *)
(*   SpecWait    run() of a tool that waits for the network; SpecWaitFair  *)
(*               adds that the host's timers fire                          *)
(*   SpecState   restart and browser_load_state with the capture and the   *)
(*               restore of the session, the tools called one at a time    *)
(*   SpecCapture captureCurrentState concurrent with tabs opening/closing  *)
(*   SpecClose   ensureTab and close() called while teardown is running    *)
(*   SpecTools   run() of browser_close, browser_restart and of tools      *)
(*               called without a current tab                              *)
(*   SpecDownloads  the download log across session creation and restart   *)
(*   SpecProfile the profile cleanup of a restart, for any userDataDir     *)
(*   SpecBlocked run() and captureCurrentState while pages raise dialogs   *)
(*   SpecEndpoint  the creation strategy for any endpoint settings         *)
(*   SpecUserDataDir  createUserDataDir in any environment               *)
(*   SpecRegistry  the tab registry under overlapping tool calls, page     *)
(*               closes and dialogs                                        *)
(*   SpecRestartFair  browser_restart while pages raise dialogs, every    *)
(*               engine call that can settle settling                      *)
(*                                                                         *)
(* A saved tab is its URL; the session storage of a page is a function of  *)
(* the site it shows.                                                      *)
(*                                                                         *)
(* JavaScript is single-threaded. An action is one turn of the event loop: *)
(* an engine event or I/O completion, the callback it runs and every       *)
(* promise continuation that becomes runnable without further I/O (the     *)
(* microtasks), in the order the reactions were registered.                *)
(* The configuration modelled has no network allow/block lists, so         *)
(* _setupRequestInterception performs no I/O.                              *)
(***************************************************************************)
EXTENDS Integers, Sequences, FiniteSets, Bags, TLC

\* ------------------------------------------------------------------ bounds
MaxObjects == 2   \* Spec: launches plus pages the engine creates in one behaviour
MaxCallers == 2   \* newTab / ensureTab calls in flight at once
MaxTabs == 4      \* pages the engine creates in one behaviour
MaxCapturePages == 2   \* SpecCapture: pages the engine creates in one behaviour
MaxRuns == 2      \* run() invocations in flight at once
MaxRacePages == 2 \* SpecRace: pages the engine creates in one behaviour
MaxRequests == 3  \* network requests the page issues in one behaviour
MaxDownloads == 2 \* downloads the engine signals in one behaviour
MaxPathLen == 5   \* SpecProfile: characters of the configured userDataDir
MaxEndpointLen == 3   \* SpecEndpoint: characters of a configured endpoint

Promises == 1..MaxObjects
Pages == 1..MaxTabs
RunIds == 1..MaxRuns
Requests == 1..MaxRequests
Downloads == 1..MaxDownloads

NoPromise == 0
NoTab == 0
NoRun == 0

VARIABLES
  \* ---- Context fields
  memo,          \* _browserContextPromise: NoPromise or the memoized promise
  tabs,          \* _tabs: sequence of pages (a Tab wraps one page)
  currentTab,    \* _currentTab: NoTab or a page
  modalStates,   \* _modalStates: sequence of [type, tab]
  pendingAction, \* _pendingAction: NoRun or the run() whose dialogShown promise it holds
  \* ---- promises made by _setupBrowserContext, one browser context each
  pstate,        \* promise -> "unused" | "launching" | "restoring" | "tracing" |
                 \* "fulfilled" | "rejected"
  ctxState,      \* promise -> "none" | "open" | "closed": the context it created
  launches,      \* number of _createBrowserContext calls started
  clears,        \* number of times a memoized promise was dropped
  \* ---- close() invocations, at most one per promise
  closeSt,       \* promise -> "none" | "awaitPromise" | "stopTracing" | "closingCtx" | "done" | "threw"
  closeVoid,     \* promise -> the close() was the fire-and-forget one of _onPageClosed
  uncaught,      \* a fire-and-forget close() rejected: unhandled rejection
  \* ---- engine side
  pageSt,        \* page -> "free" | "open" | "closing" | "closed"
  pageCtx,       \* page -> the promise whose context owns it (0 while free)
  saveTrace,     \* config.saveTrace
  mode,          \* config.browser: "persistent" | "isolated" | "remote"
  userDataDir,   \* config.browser.userDataDir: NoDir or a path, a sequence of
                 \* path characters
  remoteEndpoint, \* config.browser.remoteEndpoint: a configuration value
  cdpEndpoint,   \* config.browser.cdpEndpoint: a configuration value
  engineCall,    \* promise -> the connect or launch call _createBrowserContext
                 \* issued for it, "none" when it issued none
  env,           \* process.env: the directory each variable names, NoDir when
                 \* it is not set
  writableDirs,  \* file system: the directories ensureDirectoryExists succeeds on
  launchDir,     \* the directory createUserDataDir returned to
                 \* launchPersistentContext, NoDir before it has
  \* ---- calls in flight
  calls,         \* bag of the newTab / ensureTab calls in flight: [op, pc, p, epoch]
  rst,           \* resetBrowserContext in flight: [pc, p, clean, preserve, had, snap,
                 \* loaded], clean telling whether lines 292-295 select the
                 \* profile cleanup
  run,           \* run id -> the run() invocation and its waitForCompletion
  lastReturn,    \* how the run() that ended last ended: [won, out]
  \* ---- engine side of run()
  dialogOn,      \* page -> the page has raised a dialog
  reqSt,         \* request -> "unissued" | "inflight" | "finished" | "failed"
  reqPage,       \* request -> the page that issued it (NoTab while unissued)
  \* ---- session state capture / restore
  savedState,    \* _savedState: NoState or a snapshot [storage, tabs, cur]
  cap,           \* _captureCurrentState in flight: [pc, by, p, i, storage, tabs, cur]
  captured,      \* what the captureCurrentState that ended last returned
  rs,            \* _restoreState in flight: [pc, p, i, g, failed]
  ld,            \* browser_load_state in flight: [pc, snap]
  \* ---- engine side of the session state
  pageUrl,       \* page -> the URL it shows
  ctxStore,      \* promise -> the value is in the cookies / storage of its context
  profile,       \* the value is in the on-disk profile directory
  \* ---- observation
  carry,         \* the pending snapshot was captured by a restart asked to preserve
                 \* the session: "none" | "state" | "kept" | "keptCleaned", the last
                 \* two when the value was readable in that session
  \* ---- downloads
  downloads,     \* _downloads: sequence of [id, finished]
  dl             \* download -> where its downloadStarted call stands:
                 \* "none" | "naming" | "saving" | "saved" | "failed"

vars == <<memo, tabs, currentTab, modalStates, pendingAction, pstate, ctxState,
          launches, clears, closeSt, closeVoid, uncaught, pageSt, pageCtx,
          saveTrace, mode, calls, rst, run, lastReturn, dialogOn, reqSt, reqPage,
          savedState, cap, captured, rs, ld, pageUrl, ctxStore, profile, carry,
          downloads, dl, userDataDir, remoteEndpoint, cdpEndpoint, engineCall, env, writableDirs, launchDir>>

\* the variables of the handle, the registry and the engine's pages, without
\* the modal-state stack
sessionVars == <<memo, tabs, currentTab, pstate, ctxState, launches, clears, closeSt,
                 closeVoid, uncaught, pageSt, pageCtx, saveTrace, mode, calls, rst,
                 userDataDir, remoteEndpoint, cdpEndpoint, engineCall, env, writableDirs, launchDir>>

\* the variables of run() and of the engine events it reacts to
raceVars == <<pendingAction, run, lastReturn, dialogOn, reqSt, reqPage>>

\* the variables of the session state: the pending snapshot, its capture and
\* its replay, and the data a snapshot is taken from
snapVars == <<savedState, cap, captured, rs, ld, pageUrl, ctxStore, profile, carry,
              downloads, dl>>

\* ----------------------------------------------------------------- helpers
\* config.browser.userDataDir is undefined
NoDir == <<>>

\* ---- paths: a path is the sequence of its characters, where the names
\* "ms-playwright" and ".." and the location of the cache directory count as
\* one character each
Sep == "/"
Up == ".."
PathChars == {Sep, "c", "m", "x", Up}

\* path.join of two paths without "." or ".." segments
PathJoin(a, b) == a \o <<Sep>> \o b

\* String.prototype.startsWith
StartsWith(s, prefix) ==
  Len(s) >= Len(prefix) /\ SubSeq(s, 1, Len(prefix)) = prefix

\* lines 303-307: the cache directory of the platform
CacheDirectory == <<Sep, "c">>

\* the "ms-playwright" folder of the cache directory
MsPlaywrightDir == PathJoin(CacheDirectory, <<"m">>)

\* the profile folder createUserDataDir makes in ms-playwright (lines 651-654)
DefaultProfileDir == PathJoin(MsPlaywrightDir, <<"x">>)

\* the temporary directory of line 660
TempDir == <<Sep, "x">>

\* the variables of the environment createUserDataDir reads (lines 606, 620-621),
\* the browser being chromium
EnvVars ==
  {"PLAYWRIGHT_USER_DATA_DIR", "MCP_USER_DATA_DIR", "BROWSER_PROFILE_DIR",
   "PLAYWRIGHT_CHROMIUM_USER_DATA_DIR", "MCP_CHROMIUM_PROFILE_DIR"}

\* ---- configuration values of config.browser.remoteEndpoint / cdpEndpoint:
\* undefined, a number, or a string, a sequence of characters
Undefined == [type |-> "undefined", s |-> <<>>, n |-> 0]

Num(n) == [type |-> "number", s |-> <<>>, n |-> n]

Str(s) == [type |-> "string", s |-> s, n |-> 0]

EndpointChars == {" ", "w", ":"}

EndpointValues ==
  {Undefined, Num(0), Num(7)}
    \cup {Str(s) : s \in UNION {[1..k -> EndpointChars] : k \in 0..MaxEndpointLen}}

\* the truthiness test of `if (this.config.browser?.remoteEndpoint)`
Truthy(v) ==
  CASE v.type = "string" -> v.s # <<>>
    [] v.type = "number" -> v.n # 0
    [] OTHER -> FALSE

\* String.prototype.trim
RECURSIVE Trim(_)
Trim(s) ==
  IF s = <<>> THEN s
  ELSE IF Head(s) = " " THEN Trim(Tail(s))
  ELSE IF s[Len(s)] = " " THEN Trim(SubSeq(s, 1, Len(s) - 1))
  ELSE s

\* new URL(s) does not throw: with no base, s stripped of the spaces around
\* it begins with a scheme, letters followed by a colon
ParsesAsURL(s) ==
  LET t == Trim(s)
  IN \E k \in 2..Len(t) : t[k] = ":" /\ \A j \in 1..(k - 1) : t[j] = "w"

\* _createBrowserContext, lines 527-563: the engine call it issues for the
\* configuration, "none" when it throws before any
CreateCall(remote, cdp, m) ==
  IF Truthy(remote)
  THEN IF remote.type # "string" \/ Trim(remote.s) = <<>> THEN "none"
       ELSE IF ~ParsesAsURL(remote.s) THEN "none"
       ELSE "connect"
  ELSE IF Truthy(cdp)
  THEN IF cdp.type # "string" \/ Trim(cdp.s) = <<>> THEN "none"
       ELSE "connectOverCDP"
  ELSE IF m = "isolated" THEN "launch" ELSE "launchPersistentContext"

Min(a, b) == IF a < b THEN a ELSE b

RemoveAt(s, i) == SubSeq(s, 1, i - 1) \o SubSeq(s, i + 1, Len(s))

\* Array.prototype.indexOf, 0-based, -1 when absent
IndexOf(s, x) ==
  IF \E i \in 1..Len(s) : s[i] = x
  THEN (CHOOSE i \in 1..Len(s) : s[i] = x /\ \A j \in 1..(i - 1) : s[j] # x) - 1
  ELSE -1

\* s[i] of a JavaScript array, 0-based: undefined (NoTab) out of range
At0(s, i) == IF i >= 0 /\ i < Len(s) THEN s[i + 1] ELSE NoTab

\* a call that has returned, or thrown, to the tool layer
Returned == [op |-> "none", pc |-> "returned", p |-> NoPromise, epoch |-> 0]

RECURSIVE SumOver(_, _)
SumOver(S, B) ==
  IF S = {} THEN 0
  ELSE LET x == CHOOSE y \in S : TRUE IN B[x] + SumOver(S \ {x}, B)

\* the bag of F(x) for the x of bag B, without the calls that have returned
MapCalls(B, F(_)) ==
  LET img == {F(x) : x \in DOMAIN B} \ {Returned}
  IN [y \in img |-> SumOver({x \in DOMAIN B : F(x) = y}, B)]

\* ------------------------------------------------------- session state
\* the URLs a page can show; a new page shows about:blank
Blank == "blank"

Urls == {Blank, "a", "b"}

\* _savedState undefined. A snapshot is [set |-> TRUE, storage, tabs, cur]:
\* storage is "null" (line 343, and after a failed read), "empty" or "value" (the
\* storage state holds the value), tabs the sequence of saved tabs [url], cur
\* currentTabIndex
NoState == [set |-> FALSE, storage |-> "null", tabs |-> <<>>, cur |-> 0]

\* the entry of lines 385-388 for a tab that could not be read
Placeholder == [url |-> Blank]

IdleCap ==
  [pc |-> "idle", by |-> "none", p |-> NoPromise, i |-> 0, tab |-> NoTab, url |-> Blank,
   snap |-> NoState, start |-> <<>>, seen |-> <<>>, bad |-> {}]

\* nothing was captured yet
NoCapture == [ret |-> "none", snap |-> NoState, seen |-> <<>>, bad |-> {}, start |-> <<>>]

\* no _restoreState in flight; failed tells whether an engine call of the
\* restore that ended last had failed
IdleRs == [pc |-> "idle", p |-> NoPromise, i |-> 0, g |-> NoTab, failed |-> FALSE]

IdleLd == [pc |-> "idle", snap |-> NoState, restart |-> FALSE]

\* pages, and engine objects, created so far
PagesCreated == Cardinality({g \in Pages : pageSt[g] # "free"})

Objects == launches + PagesCreated

\* no resetBrowserContext in flight. preserve is the preserveState argument,
\* snap the local savedState of line 279, had whether the value was readable
\* in the session the call found, loaded the snapshot browser_load_state
\* installed before it made the call; found, for observation, whether the
\* last call to return was made with preserveState false and reached line
\* 325 with a snapshot in the slot
IdleRst ==
  [pc |-> "idle", p |-> NoPromise, clean |-> FALSE, preserve |-> FALSE, had |-> FALSE,
   snap |-> NoState, loaded |-> NoState, found |-> FALSE]

\* the value is readable in the session of promise p: a persistent context
\* keeps its cookies and storage in the profile directory
Readable(p) == IF mode = "persistent" THEN profile ELSE ctxStore[p]

OpenPagesOf(p) == {g \in Pages : pageCtx[g] = p /\ pageSt[g] \in {"open", "closing"}}

FreePage == CHOOSE g \in Pages : pageSt[g] = "free" /\ \A h \in Pages : pageSt[h] = "free" => g <= h

\* ------------------------------------------------- tab registry (Context)
\* _onPageCreated: push the tab; the first tab becomes current
OnPageCreatedTabs(ts, g) == Append(ts, g)

OnPageCreatedCurrent(cur, g) == IF cur = NoTab THEN g ELSE cur

\* _onPageClosed, line 257: only the close of the current tab moves the pointer
ClosedWasCurrent_Always(cur, g) == TRUE

ClosedWasCurrent(cur, g) == cur = g

\* _onPageClosed, line 258: this._tabs[Math.min(index, this._tabs.length - 1)],
\* evaluated on the registry after the splice; index is 0-based
CurrentAfterClose_NoClamp(rest, index) == At0(rest, index)

CurrentAfterClose(rest, index) == At0(rest, Min(index, Len(rest) - 1))

\* closeTab, line 104: index === undefined ? this._currentTab : this._tabs[index - 1]
\* (idx = 0 stands for an omitted index)
CloseTabTarget(idx) == IF idx = 0 THEN currentTab ELSE At0(tabs, idx - 1)

\* ------------------------------------------------ handle provider (Context)
\* _ensureBrowserContext, line 497: the memoized promise is reused when present
MemoHit_Never == FALSE

MemoHit == memo # NoPromise

\* the promise _ensureBrowserContext returns
EnsuredPromise == IF MemoHit THEN memo ELSE launches + 1

\* the .catch handler of lines 500-505 clears the memo only if it still holds
\* the promise that failed
HandlerClears_Always(p) == memo # NoPromise

HandlerClears(p) == memo = p

\* browserContext.close() is called: the engine starts closing the pages of
\* the context
ContextClosingPages(ps, owner, p) ==
  [g \in Pages |-> IF owner[g] = p /\ ps[g] = "open" THEN "closing" ELSE ps[g]]

\* close(), lines 267-269: where the callback of promise.then stands after its
\* first synchronous stretch, once the promise is fulfilled
CloseCallbackStage == IF saveTrace THEN "stopTracing" ELSE "closingCtx"

\* ---------------------------------------------------------------- Init
InitFields ==
  /\ memo = NoPromise
  /\ tabs = <<>>
  /\ currentTab = NoTab
  /\ modalStates = <<>>
  /\ pstate = [p \in Promises |-> "unused"]
  /\ ctxState = [p \in Promises |-> "none"]
  /\ launches = 0
  /\ clears = 0
  /\ closeSt = [p \in Promises |-> "none"]
  /\ closeVoid = [p \in Promises |-> FALSE]
  /\ uncaught = FALSE
  /\ pageSt = [g \in Pages |-> "free"]
  /\ pageCtx = [g \in Pages |-> NoPromise]
  /\ saveTrace \in BOOLEAN
  /\ mode \in {"persistent", "isolated", "remote"}
  /\ calls = EmptyBag
  /\ rst = IdleRst
  /\ engineCall = [p \in Promises |-> "none"]

\* the endpoint of a remote session is a URL, a local session has none
InitEndpoints ==
  /\ remoteEndpoint = IF mode = "remote" THEN Str(<<"w", ":">>) ELSE Undefined
  /\ cdpEndpoint = Undefined

\* no variable of the environment names a directory
InitEnv ==
  /\ env = [v \in EnvVars |-> NoDir]
  /\ writableDirs = {DefaultProfileDir}
  /\ launchDir = NoDir

\* no userDataDir is configured
InitLife == InitFields /\ InitEndpoints /\ InitEnv /\ userDataDir = NoDir

InitSnap ==
  /\ savedState = NoState
  /\ cap = IdleCap
  /\ captured = NoCapture
  /\ rs = IdleRs
  /\ ld = IdleLd
  /\ pageUrl = [g \in Pages |-> Blank]
  /\ ctxStore = [p \in Promises |-> FALSE]
  /\ profile = FALSE
  /\ carry = "none"
  /\ downloads = <<>>
  /\ dl = [d \in Downloads |-> "none"]

\* ------------------------------------------- newTab / ensureTab (callers)
\* what a caller does once the awaited promise is fulfilled: newTab line 76
\* calls newPage(); ensureTab lines 86-88 calls it only without a current tab
\* and otherwise returns
AfterHandle(rec, cur) ==
  IF rec.op = "newTab" \/ cur = NoTab THEN [rec EXCEPT !.pc = "awaitNewPage"] ELSE Returned

\* the reaction of a call to promise p settling: a rejection is thrown to the
\* tool layer by the await of line 75 / 85
SettleCall(rec, p, ok, cur) ==
  IF rec.pc = "awaitHandle" /\ rec.p = p
  THEN (IF ok THEN AfterHandle(rec, cur) ELSE Returned)
  ELSE rec

\* the reactions of the callers awaiting promise p when it settles
SettleCalls(p, ok, cur) == MapCalls(calls, LAMBDA rec : SettleCall(rec, p, ok, cur))

AddCall(rec) == IF rec = Returned THEN calls ELSE calls (+) SetToBag({rec})

\* _createBrowserContext, line 530: the storage state of the pending snapshot
\* is the storageState option of the new context (lines 541-544, 572-575);
\* launchPersistentContext (line 562) is not given it
StorageOption_Never(saved) == FALSE

StorageOption(saved) == saved.set /\ saved.storage = "value"

\* newTab line 75 / ensureTab line 85: await this._ensureBrowserContext().
\* A miss of _ensureBrowserContext (lines 497-506) calls _setupBrowserContext,
\* which runs synchronously into _createBrowserContext and its launch/connect.
CallTab(op) ==
  /\ LET p == EnsuredPromise
         rec == [op |-> op, pc |-> "awaitHandle", p |-> p, epoch |-> clears]
     IN IF MemoHit
        THEN /\ calls' = AddCall(IF pstate[p] = "fulfilled" THEN AfterHandle(rec, currentTab)
                                 ELSE IF pstate[p] = "rejected" THEN Returned
                                 ELSE rec)
             /\ UNCHANGED <<memo, pstate, launches, ctxStore, engineCall, env, writableDirs, launchDir>>
        ELSE /\ calls' = AddCall(rec)
             /\ launches' = launches + 1
             /\ memo' = p
             /\ pstate' = [pstate EXCEPT ![p] = "launching"]
             /\ ctxStore' = [ctxStore EXCEPT ![p] = StorageOption(savedState)]
             /\ engineCall' = [engineCall EXCEPT
                                 ![p] = CreateCall(remoteEndpoint, cdpEndpoint, mode)]
  /\ UNCHANGED <<tabs, currentTab, modalStates, ctxState, clears, closeSt, closeVoid,
                 uncaught, pageSt, pageCtx, saveTrace, mode, rst, userDataDir,
                 remoteEndpoint, cdpEndpoint, env, writableDirs, launchDir>>
  /\ UNCHANGED raceVars
  /\ UNCHANGED <<savedState, cap, captured, rs, ld, pageUrl, profile, carry, downloads, dl>>

NewTab == CallTab("newTab")

EnsureTab == CallTab("ensureTab")

\* engine: browserContext.newPage() creates the page and emits 'page', which
\* runs _onPageCreated (lines 245-250); then newPage() resolves and newTab
\* line 77 makes the new page's tab current
EngineNewPage(rec) ==
  /\ BagIn(rec, calls)
  /\ rec.pc = "awaitNewPage"
  /\ ctxState[rec.p] = "open"
  /\ closeSt[rec.p] \notin {"closingCtx", "done"}
  /\ LET g == FreePage IN
       /\ pageSt' = [pageSt EXCEPT ![g] = "open"]
       /\ pageCtx' = [pageCtx EXCEPT ![g] = rec.p]
       /\ tabs' = OnPageCreatedTabs(tabs, g)
       /\ currentTab' = IF rec.op = "newTab" THEN g
                        ELSE OnPageCreatedCurrent(currentTab, g)
  /\ calls' = calls (-) SetToBag({rec})
  /\ UNCHANGED <<memo, modalStates, pstate, ctxState, launches, clears, closeSt,
                 closeVoid, uncaught, saveTrace, mode, rst, userDataDir, remoteEndpoint, cdpEndpoint, engineCall, env, writableDirs, launchDir>>
  /\ UNCHANGED raceVars
  /\ UNCHANGED snapVars

\* engine: newPage() on a context that is closing or closed rejects, and the
\* call throws to the tool layer
EngineNewPageFails(rec) ==
  /\ BagIn(rec, calls)
  /\ rec.pc = "awaitNewPage"
  /\ (ctxState[rec.p] # "open" \/ closeSt[rec.p] \in {"closingCtx", "done"})
  /\ calls' = calls (-) SetToBag({rec})
  /\ UNCHANGED <<memo, tabs, currentTab, modalStates, pstate, ctxState, launches,
                 clears, closeSt, closeVoid, uncaught, pageSt, pageCtx, saveTrace, mode,
                 rst, userDataDir, remoteEndpoint, cdpEndpoint, engineCall, env, writableDirs, launchDir>>
  /\ UNCHANGED raceVars
  /\ UNCHANGED snapVars

\* ------------------------------------- _setupBrowserContext (lines 509-526)
\* the promise rejects: the .catch handler of _ensureBrowserContext runs first
\* (it was registered first), then the awaiting callers and a close() that
\* captured the promise (its promise.then(...) rejects, nothing catches it)
Reject(p) ==
  /\ pstate' = [pstate EXCEPT ![p] = "rejected"]
  /\ IF HandlerClears(p)
     THEN memo' = NoPromise /\ clears' = clears + 1
     ELSE UNCHANGED <<memo, clears>>
  /\ calls' = SettleCalls(p, FALSE, currentTab)
  /\ IF closeSt[p] = "awaitPromise"
     THEN /\ closeSt' = [closeSt EXCEPT ![p] = "threw"]
          /\ uncaught' = (uncaught \/ closeVoid[p])
     ELSE UNCHANGED <<closeSt, uncaught>>

\* the promise fulfills with the context: the awaiting callers go on, and a
\* close() that captured the promise runs the callback of line 267
Fulfill(p, ps, owner, cur) ==
  /\ pstate' = [pstate EXCEPT ![p] = "fulfilled"]
  /\ calls' = SettleCalls(p, TRUE, cur)
  /\ IF closeSt[p] = "awaitPromise"
     THEN /\ closeSt' = [closeSt EXCEPT ![p] = CloseCallbackStage]
          /\ pageSt' = IF saveTrace THEN ps ELSE ContextClosingPages(ps, owner, p)
     ELSE closeSt' = closeSt /\ pageSt' = ps

\* _createBrowserContext rejected (launch or connect failed); no context exists
LaunchFails(p) ==
  /\ pstate[p] = "launching"
  /\ Reject(p)
  /\ carry' = "none"
  /\ UNCHANGED downloads
  /\ UNCHANGED <<tabs, currentTab, modalStates, ctxState, launches, closeVoid, pageSt,
                 pageCtx, saveTrace, mode, rst, userDataDir, remoteEndpoint, cdpEndpoint, engineCall, env, writableDirs, launchDir>>
  /\ UNCHANGED raceVars
  /\ UNCHANGED <<savedState, cap, captured, rs, ld, pageUrl, ctxStore, profile, dl>>

\* _createBrowserContext resolved: the context exists, a persistent profile
\* comes with a first page. Lines 511-516: the existing pages are registered
\* (_onPageCreated) and 'page' is subscribed; with no snapshot pending
\* _restoreState returns at once (line 400); tracing.start is awaited when
\* config.saveTrace, otherwise the promise fulfills.
LaunchSucceeds(p) ==
  /\ pstate[p] = "launching"
  /\ engineCall[p] # "none"
  /\ ~savedState.set
  /\ carry' = "none"
  /\ UNCHANGED downloads
  /\ ctxState' = [ctxState EXCEPT ![p] = "open"]
  /\ LET first == mode = "persistent"
         ps == IF first THEN [pageSt EXCEPT ![FreePage] = "open"] ELSE pageSt
         owner == IF first THEN [pageCtx EXCEPT ![FreePage] = p] ELSE pageCtx
         ts == IF first THEN OnPageCreatedTabs(tabs, FreePage) ELSE tabs
         cur == IF first THEN OnPageCreatedCurrent(currentTab, FreePage) ELSE currentTab
     IN /\ pageCtx' = owner
        /\ tabs' = ts
        /\ currentTab' = cur
        /\ IF saveTrace
           THEN /\ pstate' = [pstate EXCEPT ![p] = "tracing"]
                /\ pageSt' = ps
                /\ UNCHANGED <<calls, closeSt>>
           ELSE Fulfill(p, ps, owner, cur)
  /\ UNCHANGED <<memo, modalStates, launches, clears, closeVoid, uncaught, saveTrace,
                 mode, rst, userDataDir, remoteEndpoint, cdpEndpoint, engineCall, env, writableDirs, launchDir>>
  /\ UNCHANGED raceVars
  /\ UNCHANGED <<savedState, cap, captured, rs, ld, pageUrl, ctxStore, profile, dl>>

\* tracing.start (lines 517-524) resolved, or rejected: then the promise
\* rejects and the context it created stays open
SetupTraced(p, ok) ==
  /\ pstate[p] = "tracing"
  /\ IF ok
     THEN Fulfill(p, pageSt, pageCtx, currentTab) /\ UNCHANGED <<memo, clears, uncaught>>
     ELSE Reject(p) /\ UNCHANGED pageSt
  /\ UNCHANGED <<tabs, currentTab, modalStates, ctxState, launches, closeVoid, pageCtx,
                 saveTrace, mode, rst, userDataDir, remoteEndpoint, cdpEndpoint, engineCall, env, writableDirs, launchDir>>
  /\ UNCHANGED raceVars
  /\ UNCHANGED snapVars

\* --------------------------------------------------- close (lines 262-277)
\* close() with promise m memoized, up to its first I/O: the memo is cleared
\* (lines 265-266) and promise.then(callback) is awaited; on a promise already
\* fulfilled the callback starts tracing.stop() or browserContext.close().
\* fireAndForget tells the `void this.close()` of _onPageClosed from an awaited
\* close(); ps is the page table the turn has produced so far.
CloseEffect(m, fireAndForget, ps) ==
  /\ memo' = NoPromise
  /\ clears' = clears + 1
  /\ closeVoid' = [closeVoid EXCEPT ![m] = fireAndForget]
  /\ closeSt' = [closeSt EXCEPT ![m] =
       IF pstate[m] = "fulfilled" THEN CloseCallbackStage
       ELSE IF pstate[m] = "rejected" THEN "threw"
       ELSE "awaitPromise"]
  /\ pageSt' = IF pstate[m] = "fulfilled" /\ ~saveTrace
               THEN ContextClosingPages(ps, pageCtx, m) ELSE ps
  /\ uncaught' = (uncaught \/ (pstate[m] = "rejected" /\ fireAndForget))

\* browser_close: `await context.close()`; with no memoized promise close()
\* returns at once (line 263)
CloseCall ==
  /\ memo # NoPromise
  /\ CloseEffect(memo, FALSE, pageSt)
  /\ UNCHANGED <<tabs, currentTab, modalStates, pstate, ctxState, launches, pageCtx,
                 saveTrace, mode, calls, rst, userDataDir, remoteEndpoint, cdpEndpoint, engineCall, env, writableDirs, launchDir>>
  /\ UNCHANGED raceVars
  /\ UNCHANGED snapVars

\* tracing.stop() (line 269) resolved: browserContext.close() is called; or it
\* rejected, which nothing in close() catches
TracingStopped(p, ok) ==
  /\ closeSt[p] = "stopTracing"
  /\ IF ok
     THEN /\ closeSt' = [closeSt EXCEPT ![p] = "closingCtx"]
          /\ pageSt' = ContextClosingPages(pageSt, pageCtx, p)
          /\ UNCHANGED uncaught
     ELSE /\ closeSt' = [closeSt EXCEPT ![p] = "threw"]
          /\ uncaught' = (uncaught \/ closeVoid[p])
          /\ UNCHANGED pageSt
  /\ UNCHANGED <<memo, tabs, currentTab, modalStates, pstate, ctxState, launches,
                 clears, closeVoid, pageCtx, saveTrace, mode, calls, rst, userDataDir, remoteEndpoint, cdpEndpoint, engineCall, env, writableDirs, launchDir>>
  /\ UNCHANGED raceVars
  /\ UNCHANGED snapVars

\* browserContext.close() and browser.close() (lines 270-275) completed, after
\* the 'close' events of the context's pages
ContextClosed(p) ==
  /\ closeSt[p] = "closingCtx"
  /\ OpenPagesOf(p) = {}
  /\ closeSt' = [closeSt EXCEPT ![p] = "done"]
  /\ ctxState' = [ctxState EXCEPT ![p] = "closed"]
  /\ UNCHANGED <<memo, tabs, currentTab, modalStates, pstate, launches, clears,
                 closeVoid, uncaught, pageSt, pageCtx, saveTrace, mode, calls, rst, userDataDir, remoteEndpoint, cdpEndpoint, engineCall, env, writableDirs, launchDir>>
  /\ UNCHANGED raceVars
  /\ UNCHANGED snapVars

\* --------------------------------------------------------- page closing
\* closeTab (lines 103-107): page.close() on the chosen tab, if there is one
CloseTab(idx) ==
  /\ idx \in 0..Len(tabs)
  /\ CloseTabTarget(idx) # NoTab
  /\ pageSt[CloseTabTarget(idx)] = "open"
  /\ pageSt' = [pageSt EXCEPT ![CloseTabTarget(idx)] = "closing"]
  /\ UNCHANGED <<memo, tabs, currentTab, modalStates, pstate, ctxState, launches,
                 clears, closeSt, closeVoid, uncaught, pageCtx, saveTrace, mode, calls,
                 rst, userDataDir, remoteEndpoint, cdpEndpoint, engineCall, env, writableDirs, launchDir>>
  /\ UNCHANGED raceVars
  /\ UNCHANGED snapVars

\* engine: a page goes away on its own (window.close(), the user, a crash)
PageCloses(g) ==
  /\ pageSt[g] = "open"
  /\ pageSt' = [pageSt EXCEPT ![g] = "closing"]
  /\ UNCHANGED <<memo, tabs, currentTab, modalStates, pstate, ctxState, launches,
                 clears, closeSt, closeVoid, uncaught, pageCtx, saveTrace, mode, calls,
                 rst, userDataDir, remoteEndpoint, cdpEndpoint, engineCall, env, writableDirs, launchDir>>
  /\ UNCHANGED raceVars
  /\ UNCHANGED snapVars

\* engine: the 'close' event of a page runs _onPageClosed (lines 251-261);
\* the last tab closing calls `void this.close()`. The page is gone, and so
\* is its URL.
PageClosedEvent(g) ==
  /\ pageSt[g] = "closing"
  /\ modalStates' = SelectSeq(modalStates, LAMBDA st : st.tab # g)
  /\ LET index == IndexOf(tabs, g)
         rest == RemoveAt(tabs, index + 1)
         ps == [pageSt EXCEPT ![g] = "closed"]
     IN IF index = -1
        THEN /\ pageSt' = ps
             /\ UNCHANGED <<tabs, currentTab, memo, closeSt, closeVoid, clears, uncaught>>
        ELSE /\ tabs' = rest
             /\ currentTab' = IF ClosedWasCurrent(currentTab, g)
                              THEN CurrentAfterClose(rest, index)
                              ELSE currentTab
             /\ IF rest = <<>> /\ memo # NoPromise
                THEN CloseEffect(memo, TRUE, ps)
                ELSE /\ pageSt' = ps
                     /\ UNCHANGED <<memo, closeSt, closeVoid, clears, uncaught>>
  /\ pageUrl' = [pageUrl EXCEPT ![g] = Blank]
  /\ UNCHANGED <<pstate, ctxState, launches, pageCtx, saveTrace, mode, calls, rst, userDataDir, remoteEndpoint, cdpEndpoint, engineCall, env, writableDirs, launchDir>>
  /\ UNCHANGED raceVars
  /\ UNCHANGED <<savedState, cap, captured, rs, ld, ctxStore, profile, carry, downloads, dl>>

\* ------------------------------------ resetBrowserContext (lines 278-326)
\* lines 292-295: the profile directory is cleaned only for an on-disk profile
CleansProfile(cleanProfile) == cleanProfile /\ mode = "persistent"

\* createUserDataDir, lines 603-664: the profile folder in ms-playwright of
\* the cache directory, or a directory elsewhere (named by the environment,
\* or the temporary one of line 660)
CreatedUserDataDirs == {DefaultProfileDir, TempDir}

\* lines 297-301: the directory the cleanup looks at
UserDataDirs == IF userDataDir # NoDir THEN {userDataDir} ELSE CreatedUserDataDirs

\* line 308, the safety check before the rm of line 310
InCacheLocation(dir) == StartsWith(dir, MsPlaywrightDir)

\* the directory a path names, as the file system resolves it for rm: the
\* sequence of its segments, empty segments dropped and ".." stepping up
PushSegment(stack, seg) ==
  IF seg = <<>> THEN stack
  ELSE IF seg = <<Up>>
  THEN (IF stack = <<>> THEN stack ELSE SubSeq(stack, 1, Len(stack) - 1))
  ELSE Append(stack, seg)

RECURSIVE Walk(_, _, _, _)
Walk(path, i, stack, seg) ==
  IF i > Len(path) THEN PushSegment(stack, seg)
  ELSE IF path[i] = Sep THEN Walk(path, i + 1, PushSegment(stack, seg), <<>>)
  ELSE Walk(path, i + 1, stack, Append(seg, path[i]))

ResolvedDir(path) == Walk(path, 1, <<>>, <<>>)

\* the absolute path of a sequence of segments
RECURSIVE Flatten(_)
Flatten(segs) ==
  IF segs = <<>> THEN <<>> ELSE <<Sep>> \o Head(segs) \o Flatten(Tail(segs))

\* path.resolve of an absolute path: the normalized path, without empty
\* segments and trailing separators
PathResolve(dir) ==
  IF ResolvedDir(dir) = <<>> THEN <<Sep>> ELSE Flatten(ResolvedDir(dir))

\* a || b || c over variables of the environment: the first that is set
FirstSet(e, names) ==
  IF \E i \in 1..Len(names) : e[names[i]] # NoDir
  THEN e[names[CHOOSE i \in 1..Len(names) :
                 /\ e[names[i]] # NoDir
                 /\ \A j \in 1..(i - 1) : e[names[j]] = NoDir]]
  ELSE NoDir

\* ensureDirectoryExists (lines 666-723) succeeds on dir
Usable(dir, w) == dir # NoDir /\ PathResolve(dir) \in w

\* createUserDataDir, lines 603-664, in the environment e and on a file
\* system where ensureDirectoryExists succeeds on the directories w
CreateUserDataDir(e, w) ==
  LET customUserDataDir ==
        FirstSet(e, <<"PLAYWRIGHT_USER_DATA_DIR", "MCP_USER_DATA_DIR", "BROWSER_PROFILE_DIR">>)
      browserSpecificDir ==
        FirstSet(e, <<"PLAYWRIGHT_CHROMIUM_USER_DATA_DIR", "MCP_CHROMIUM_PROFILE_DIR">>)
  IN IF Usable(customUserDataDir, w) THEN PathResolve(customUserDataDir)
     ELSE IF Usable(browserSpecificDir, w) THEN PathResolve(browserSpecificDir)
     ELSE IF DefaultProfileDir \in w THEN DefaultProfileDir
     ELSE TempDir

\* launchPersistentContext, line 587: no userDataDir is configured and
\* createUserDataDir has returned the directory to launch with
UserDataDirCreated(p) ==
  /\ pstate[p] = "launching"
  /\ engineCall[p] = "launchPersistentContext"
  /\ userDataDir = NoDir
  /\ launchDir = NoDir
  /\ launchDir' = CreateUserDataDir(env, writableDirs)
  /\ UNCHANGED <<memo, tabs, currentTab, modalStates, pstate, ctxState, launches, clears,
                 closeSt, closeVoid, uncaught, pageSt, pageCtx, saveTrace, mode, calls,
                 rst, userDataDir, remoteEndpoint, cdpEndpoint, engineCall, env,
                 writableDirs>>
  /\ UNCHANGED raceVars
  /\ UNCHANGED snapVars

\* dir is folder, or lies below it
InsideFolder(dir, folder) ==
  LET d == ResolvedDir(dir)
      f == ResolvedDir(folder)
  IN Len(d) >= Len(f) /\ SubSeq(d, 1, Len(f)) = f

\* line 325, `this._savedState = savedState`: the local of line 279, which is
\* undefined unless lines 281-288 captured a snapshot; slot is what the field
\* held
SlotAfterReset_KeepsUncaptured(r, slot) == IF r.snap.set THEN r.snap ELSE slot

SlotAfterReset(r, slot) == r.snap

\* lines 317-325, r being the call: the registry and the modal states are
\* reset, the local savedState of line 279 becomes the pending snapshot, and
\* the call returns
ResetState(r, slot) ==
  /\ memo' = NoPromise
  /\ clears' = clears + (IF memo # NoPromise THEN 1 ELSE 0)
  /\ tabs' = <<>>
  /\ currentTab' = NoTab
  /\ modalStates' = <<>>
  /\ downloads' = <<>>
  /\ savedState' = SlotAfterReset(r, slot)
  /\ carry' = IF r.preserve /\ r.snap.set
              THEN (IF ~r.had THEN "state" ELSE IF r.clean THEN "keptCleaned" ELSE "kept")
              ELSE "none"
  /\ rst' = [IdleRst EXCEPT !.found = ~r.preserve /\ slot.set]

\* from line 290, `await this.close()`, to the next I/O; slot is what
\* _savedState holds when the call reaches line 290
RestartFromClose(r, slot) ==
  IF memo # NoPromise
  THEN /\ CloseEffect(memo, FALSE, pageSt)
       /\ rst' = [r EXCEPT !.pc = "closing", !.p = memo]
       /\ savedState' = slot
       /\ UNCHANGED <<tabs, currentTab, modalStates, carry, downloads>>
  ELSE /\ IF r.clean
          THEN /\ rst' = [r EXCEPT !.pc = "clean", !.p = NoPromise]
               /\ savedState' = slot
               /\ UNCHANGED <<memo, clears, tabs, currentTab, modalStates, carry, downloads>>
          ELSE ResetState(r, slot)
       /\ UNCHANGED <<closeSt, closeVoid, pageSt, uncaught>>

\* the call of resetBrowserContext(cleanProfile, preserveState)
RestartArgs(cleanProfile, preserveState) ==
  [IdleRst EXCEPT !.clean = CleansProfile(cleanProfile), !.preserve = preserveState]

\* browser_restart: the call up to its first I/O, the capture of line 283 when
\* preserveState and a promise is memoized, else the close of line 290. The
\* capture is taken as a whole here and its snapshot is not followed.
RestartCall(cleanProfile, preserveState) ==
  /\ rst.pc = "idle"
  /\ IF preserveState /\ memo # NoPromise
     THEN /\ rst' = [RestartArgs(cleanProfile, preserveState) EXCEPT
                       !.pc = "capture", !.p = memo]
          /\ UNCHANGED <<memo, clears, tabs, currentTab, modalStates, closeSt,
                         closeVoid, pageSt, uncaught, savedState, carry, downloads>>
     ELSE RestartFromClose(RestartArgs(cleanProfile, preserveState), savedState)
  /\ UNCHANGED <<pstate, ctxState, launches, pageCtx, saveTrace, mode, calls, userDataDir, remoteEndpoint, cdpEndpoint, engineCall, env, writableDirs, launchDir>>
  /\ UNCHANGED raceVars
  /\ UNCHANGED <<cap, captured, rs, ld, pageUrl, ctxStore, profile, dl>>

\* _captureCurrentState returned (it catches everything); it awaited the
\* promise that was memoized when the capture began. Line 290 follows.
RestartCaptured ==
  /\ rst.pc = "capture"
  /\ cap.pc = "idle"
  /\ pstate[rst.p] \in {"fulfilled", "rejected"}
  /\ RestartFromClose(rst, savedState)
  /\ UNCHANGED <<pstate, ctxState, launches, pageCtx, saveTrace, mode, calls, userDataDir, remoteEndpoint, cdpEndpoint, engineCall, env, writableDirs, launchDir>>
  /\ UNCHANGED raceVars
  /\ UNCHANGED <<cap, captured, rs, ld, pageUrl, ctxStore, profile, dl>>

\* close() returned. Without a profile to clean, lines 317-325 follow with no
\* I/O in between; otherwise createUserDataDir / rm are awaited first.
RestartClosed ==
  /\ rst.pc = "closing"
  /\ closeSt[rst.p] = "done"
  /\ IF rst.clean
     THEN /\ rst' = [rst EXCEPT !.pc = "clean", !.p = NoPromise]
          /\ UNCHANGED <<memo, tabs, currentTab, modalStates, clears, savedState, carry, downloads>>
     ELSE ResetState(rst, savedState)
  /\ UNCHANGED <<pstate, ctxState, launches, closeSt, closeVoid, uncaught, pageSt,
                 pageCtx, saveTrace, mode, calls, userDataDir, remoteEndpoint, cdpEndpoint, engineCall, env, writableDirs, launchDir>>
  /\ UNCHANGED raceVars
  /\ UNCHANGED <<cap, captured, rs, ld, pageUrl, ctxStore, profile, dl>>

\* close() rejected: resetBrowserContext rejects at line 290 and lines 317-325
\* do not run
RestartCloseThrew ==
  /\ rst.pc = "closing"
  /\ closeSt[rst.p] = "threw"
  /\ rst' = IdleRst
  /\ UNCHANGED <<memo, tabs, currentTab, modalStates, pstate, ctxState, launches,
                 clears, closeSt, closeVoid, uncaught, pageSt, pageCtx, saveTrace, mode,
                 calls, userDataDir, remoteEndpoint, cdpEndpoint, engineCall, env, writableDirs, launchDir>>
  /\ UNCHANGED raceVars
  /\ UNCHANGED snapVars

\* the profile cleanup of lines 296-315 finished: the directory was removed
\* (line 310), or it lies outside the cache directory or the removal failed
\* (which line 313 catches)
RestartCleaned(removed) ==
  /\ rst.pc = "clean"
  /\ removed => \E dir \in UserDataDirs : InCacheLocation(dir)
  /\ profile' = (profile /\ ~removed)
  /\ ResetState(rst, savedState)
  /\ UNCHANGED <<pstate, ctxState, launches, closeSt, closeVoid, uncaught, pageSt,
                 pageCtx, saveTrace, mode, calls, userDataDir, remoteEndpoint, cdpEndpoint, engineCall, env, writableDirs, launchDir>>
  /\ UNCHANGED raceVars
  /\ UNCHANGED <<cap, captured, rs, ld, pageUrl, ctxStore, dl>>

\* ----------------------------- _captureCurrentState (lines 339-398)
\* the state object of lines 342-347
EmptySnapshot == [set |-> TRUE, storage |-> "null", tabs |-> <<>>, cur |-> 0]

\* what a capture returns: undefined (line 396), or its state object with,
\* for observation, the registry when it began, the tabs it read and the
\* positions of the entries whose read failed
Nothing == [NoCapture EXCEPT !.ret = "nothing"]

StateOf(c) ==
  [ret |-> "state", snap |-> c.snap, seen |-> c.seen, bad |-> c.bad, start |-> c.start]

\* the loop of lines 360-390 at index c.i of the registry ts, which is the
\* live array this._tabs: line 364 reads the URL and line 366 starts the
\* evaluation in the page, or the loop is over
CaptureNext(c, ts) ==
  IF c.i < Len(ts)
  THEN [c EXCEPT !.pc = "tab", !.tab = ts[c.i + 1], !.url = pageUrl[ts[c.i + 1]]]
  ELSE [c EXCEPT !.pc = "idle"]

\* the capture returns res to its caller: to the tool layer (captured records
\* it), or to resetBrowserContext at line 283, which goes on at line 290
CaptureReturns(by, res) ==
  /\ cap' = IdleCap
  /\ IF by = "restart"
     THEN /\ RestartFromClose([rst EXCEPT !.snap = res.snap], savedState)
          /\ UNCHANGED captured
     ELSE /\ captured' = res
          /\ UNCHANGED <<rst, memo, clears, tabs, currentTab, modalStates, savedState,
                         carry, closeSt, closeVoid, pageSt, uncaught, downloads>>

\* the capture suspends again as c, or returns its state object (line 392)
CaptureGoesOn(c) ==
  IF c.pc = "idle"
  THEN CaptureReturns(c.by, StateOf(c))
  ELSE /\ cap' = c
       /\ UNCHANGED <<captured, rst, memo, clears, tabs, currentTab, modalStates,
                      savedState, carry, closeSt, closeVoid, pageSt, uncaught, downloads>>

\* line 341 on a fulfilled promise, up to storageState() of line 350
CaptureBegun(by) ==
  [IdleCap EXCEPT !.pc = "storage", !.by = by, !.p = memo, !.snap = EmptySnapshot,
                  !.start = tabs]

\* captureCurrentState() (browser_save_state calls it). With no promise
\* memoized line 341 destructures undefined, which line 394 catches. A call
\* made while the creation is in flight is not followed.
CaptureCall ==
  /\ cap.pc = "idle"
  /\ memo # NoPromise => pstate[memo] = "fulfilled"
  /\ IF memo = NoPromise
     THEN CaptureReturns("tool", [Nothing EXCEPT !.start = tabs])
     ELSE /\ cap' = CaptureBegun("tool")
          /\ UNCHANGED <<captured, rst, memo, clears, tabs, currentTab, modalStates,
                         savedState, carry, closeSt, closeVoid, pageSt, uncaught, downloads>>
  /\ UNCHANGED <<pstate, ctxState, launches, pageCtx, saveTrace, mode, calls, userDataDir, remoteEndpoint, cdpEndpoint, engineCall, env, writableDirs, launchDir>>
  /\ UNCHANGED raceVars
  /\ UNCHANGED <<rs, ld, pageUrl, ctxStore, profile, dl>>

\* browser_restart with preserveState on a live handle: lines 281-283 begin the
\* capture
RestartPreserving(cleanProfile) ==
  /\ rst.pc = "idle"
  /\ cap.pc = "idle"
  /\ memo # NoPromise
  /\ pstate[memo] = "fulfilled"
  /\ rst' = [RestartArgs(cleanProfile, TRUE) EXCEPT
               !.pc = "capture", !.p = memo, !.had = Readable(memo)]
  /\ cap' = CaptureBegun("restart")
  /\ UNCHANGED <<memo, tabs, currentTab, modalStates, pstate, ctxState, launches, clears,
                 closeSt, closeVoid, uncaught, pageSt, pageCtx, saveTrace, mode, calls, userDataDir, remoteEndpoint, cdpEndpoint, engineCall, env, writableDirs, launchDir>>
  /\ UNCHANGED raceVars
  /\ UNCHANGED <<savedState, captured, rs, ld, pageUrl, ctxStore, profile, carry, downloads, dl>>

\* browserContext.storageState() of line 350 resolved, or rejected (line 354);
\* lines 358-366 follow
CaptureStorage(ok) ==
  /\ cap.pc = "storage"
  /\ ok => ctxState[cap.p] = "open" /\ closeSt[cap.p] \notin {"closingCtx", "done"}
  /\ LET storage == IF ~ok THEN "null" ELSE IF Readable(cap.p) THEN "value" ELSE "empty"
     IN CaptureGoesOn(CaptureNext([cap EXCEPT !.snap.storage = storage, !.i = 0], tabs))
  /\ UNCHANGED <<pstate, ctxState, launches, pageCtx, saveTrace, mode, calls, userDataDir, remoteEndpoint, cdpEndpoint, engineCall, env, writableDirs, launchDir>>
  /\ UNCHANGED raceVars
  /\ UNCHANGED <<rs, ld, pageUrl, ctxStore, profile, dl>>

\* engine: page.evaluate on page g settles. It resolves only on a page that
\* is still there, and while an unhandled dialog blocks the scripts of an open
\* page it neither resolves nor rejects
EvaluateSettles(g, ok) ==
  /\ ~(dialogOn[g] /\ pageSt[g] = "open")
  /\ ok => pageSt[g] \in {"open", "closing"}

\* tab.page.evaluate of line 366 resolved: lines 374-381 push the entry and
\* note the current tab; or it rejected: lines 385-388 push the placeholder.
\* The loop goes on at the next index of the live registry.
CaptureTab(ok) ==
  /\ cap.pc = "tab"
  /\ EvaluateSettles(cap.tab, ok)
  /\ LET entry == IF ok THEN [url |-> cap.url] ELSE Placeholder
         c == [cap EXCEPT !.snap.tabs = Append(@, entry),
                          !.snap.cur = IF ok /\ cap.tab = currentTab THEN cap.i ELSE @,
                          !.seen = Append(@, cap.tab),
                          !.bad = IF ok THEN @ ELSE @ \cup {Len(cap.snap.tabs) + 1},
                          !.i = @ + 1]
     IN CaptureGoesOn(CaptureNext(c, tabs))
  /\ UNCHANGED <<pstate, ctxState, launches, pageCtx, saveTrace, mode, calls, userDataDir, remoteEndpoint, cdpEndpoint, engineCall, env, writableDirs, launchDir>>
  /\ UNCHANGED raceVars
  /\ UNCHANGED <<rs, ld, pageUrl, ctxStore, profile, dl>>

\* ------------------------------------ _restoreState (lines 399-470)
SlotAfterRestore_KeepsOnFailure(slot, failed) == IF failed THEN slot ELSE NoState

\* the finally of lines 466-469: the slot after a restore, one of whose steps
\* may have failed
SlotAfterRestore(slot, failed) == NoState

\* the finally of lines 466-469 and the return to _setupBrowserContext, which
\* awaits tracing.start or fulfills promise p. ts, cur, ps and owner are the
\* registry, the current tab and the page tables the turn has produced.
RestoreEnds(p, failed, ts, cur, ps, owner) ==
  /\ savedState' = SlotAfterRestore(savedState, failed)
  /\ carry' = "none"
  /\ UNCHANGED downloads
  /\ rs' = [IdleRs EXCEPT !.failed = failed]
  /\ tabs' = ts
  /\ currentTab' = cur
  /\ pageCtx' = owner
  /\ IF saveTrace
     THEN /\ pstate' = [pstate EXCEPT ![p] = "tracing"]
          /\ pageSt' = ps
          /\ UNCHANGED <<calls, closeSt>>
     ELSE Fulfill(p, ps, owner, cur)

\* ---- session storage. The site of URL "a" keeps an entry in the session
\* storage of its tab, the other pages keep none.
SiteSession(url) == IF url = "a" THEN {"k"} ELSE {}

\* lines 366-377 and 385-388: the sessionStorage of a saved tab is what the
\* evaluation in its page returned, empty in the placeholder
EntrySession(entry) == SiteSession(entry.url)

\* line 344: the sessionStorage map of the state object itself; no line of
\* _captureCurrentState adds to it
SnapshotSession(snap) == {}

\* lines 404-420: the initialization script is installed only for a non-empty
\* map of the state object, and replays the entries of that map
InitScriptEntries(snap) == IF SnapshotSession(snap) # {} THEN SnapshotSession(snap) ELSE {}

AfterTabFailure_Aborts(i, n) == n

\* the catch of lines 433 and 448: a failure at the saved tab of index i, of
\* n saved tabs, is dropped and the loop goes on at the next saved tab
AfterTabFailure(i, n) == i + 1

\* lines 438-460 from the saved tab of 0-based index i on: newPage() for it
\* (line 441), or after the loop selectTab (line 455: line 81 moves the
\* current tab, line 82 awaits bringToFront), or the end
RestoreFrom(p, i, failed, ts, cur, ps, owner) ==
  IF i < Len(savedState.tabs)
  THEN /\ rs' = [pc |-> "newPage", p |-> p, i |-> i, g |-> NoTab, failed |-> failed]
       /\ pstate' = [pstate EXCEPT ![p] = "restoring"]
       /\ tabs' = ts
       /\ currentTab' = cur
       /\ pageSt' = ps
       /\ pageCtx' = owner
       /\ UNCHANGED <<savedState, carry, calls, closeSt, downloads>>
  ELSE IF savedState.cur >= 0 /\ savedState.cur < Len(ts)
  THEN /\ rs' = [pc |-> "select", p |-> p, i |-> i, g |-> NoTab, failed |-> failed]
       /\ pstate' = [pstate EXCEPT ![p] = "restoring"]
       /\ tabs' = ts
       /\ currentTab' = ts[savedState.cur + 1]
       /\ pageSt' = ps
       /\ pageCtx' = owner
       /\ UNCHANGED <<savedState, carry, calls, closeSt, downloads>>
  ELSE RestoreEnds(p, failed, ts, cur, ps, owner)

\* _createBrowserContext resolved with a snapshot pending: lines 511-516
\* register the first page of a persistent profile, and _restoreState runs up
\* to its first I/O: with saved tabs, the goto of line 429 when the context
\* has a page and the first saved URL is not about:blank, else the loop of
\* line 438. (The init script of lines 404-420 is installed only for a
\* non-empty top-level sessionStorage map, which a capture never produces.)
LaunchRestores(p) ==
  /\ pstate[p] = "launching"
  /\ engineCall[p] # "none"
  /\ savedState.set
  /\ ctxState' = [ctxState EXCEPT ![p] = "open"]
  /\ LET first == mode = "persistent"
         ps == IF first THEN [pageSt EXCEPT ![FreePage] = "open"] ELSE pageSt
         owner == IF first THEN [pageCtx EXCEPT ![FreePage] = p] ELSE pageCtx
         ts == IF first THEN OnPageCreatedTabs(tabs, FreePage) ELSE tabs
         cur == IF first THEN OnPageCreatedCurrent(currentTab, FreePage) ELSE currentTab
     IN IF savedState.tabs = <<>>
        THEN RestoreEnds(p, FALSE, ts, cur, ps, owner)
        ELSE IF first /\ savedState.tabs[1].url # Blank
        THEN /\ rs' = [pc |-> "gotoFirst", p |-> p, i |-> 0, g |-> FreePage, failed |-> FALSE]
             /\ pstate' = [pstate EXCEPT ![p] = "restoring"]
             /\ tabs' = ts
             /\ currentTab' = cur
             /\ pageSt' = ps
             /\ pageCtx' = owner
             /\ UNCHANGED <<savedState, carry, calls, closeSt, downloads>>
        ELSE RestoreFrom(p, 1, FALSE, ts, cur, ps, owner)
  /\ UNCHANGED <<memo, modalStates, launches, clears, closeVoid, uncaught, saveTrace,
                 mode, rst, userDataDir, remoteEndpoint, cdpEndpoint, engineCall, env, writableDirs, launchDir>>
  /\ UNCHANGED raceVars
  /\ UNCHANGED <<cap, captured, ld, pageUrl, ctxStore, profile, dl>>

\* existingPages[0].goto(firstTab.url) of line 429 resolved, or rejected
\* (line 433); the loop of line 438 follows
RestoreFirstNavigated(ok) ==
  /\ rs.pc = "gotoFirst"
  /\ ok => pageSt[rs.g] = "open"
  /\ pageUrl' = IF ok THEN [pageUrl EXCEPT ![rs.g] = savedState.tabs[1].url] ELSE pageUrl
  /\ RestoreFrom(rs.p, IF ok THEN 1 ELSE AfterTabFailure(0, Len(savedState.tabs)),
                 rs.failed \/ ~ok, tabs, currentTab, pageSt, pageCtx)
  /\ UNCHANGED <<memo, modalStates, ctxState, launches, clears, closeVoid, uncaught,
                 saveTrace, mode, rst, userDataDir, remoteEndpoint, cdpEndpoint, engineCall, env, writableDirs, launchDir>>
  /\ UNCHANGED raceVars
  /\ UNCHANGED <<cap, captured, ld, ctxStore, profile, dl>>

\* browserContext.newPage() of line 441 resolved, the 'page' event having run
\* _onPageCreated: the goto of line 443 follows unless the saved URL is
\* about:blank; or it rejected (line 448). The loop goes on.
RestoreNewPage(ok) ==
  /\ rs.pc = "newPage"
  /\ ok => /\ \E g \in Pages : pageSt[g] = "free"
           /\ ctxState[rs.p] = "open"
  /\ IF ok
     THEN LET g == FreePage
              ps == [pageSt EXCEPT ![g] = "open"]
              owner == [pageCtx EXCEPT ![g] = rs.p]
              ts == OnPageCreatedTabs(tabs, g)
              cur == OnPageCreatedCurrent(currentTab, g)
          IN IF savedState.tabs[rs.i + 1].url # Blank
             THEN /\ rs' = [rs EXCEPT !.pc = "goto", !.g = g]
                  /\ tabs' = ts
                  /\ currentTab' = cur
                  /\ pageSt' = ps
                  /\ pageCtx' = owner
                  /\ UNCHANGED <<savedState, carry, pstate, calls, closeSt, downloads>>
             ELSE RestoreFrom(rs.p, rs.i + 1, rs.failed, ts, cur, ps, owner)
     ELSE RestoreFrom(rs.p, AfterTabFailure(rs.i, Len(savedState.tabs)), TRUE,
                      tabs, currentTab, pageSt, pageCtx)
  /\ UNCHANGED <<memo, modalStates, ctxState, launches, clears, closeVoid, uncaught,
                 saveTrace, mode, rst, userDataDir, remoteEndpoint, cdpEndpoint, engineCall, env, writableDirs, launchDir>>
  /\ UNCHANGED raceVars
  /\ UNCHANGED <<cap, captured, ld, pageUrl, ctxStore, profile, dl>>

\* page.goto(tabData.url) of line 443 resolved, or rejected (line 448)
RestoreNavigated(ok) ==
  /\ rs.pc = "goto"
  /\ ok => pageSt[rs.g] = "open"
  /\ pageUrl' = IF ok THEN [pageUrl EXCEPT ![rs.g] = savedState.tabs[rs.i + 1].url]
                ELSE pageUrl
  /\ RestoreFrom(rs.p,
                 IF ok THEN rs.i + 1 ELSE AfterTabFailure(rs.i, Len(savedState.tabs)),
                 rs.failed \/ ~ok, tabs, currentTab, pageSt, pageCtx)
  /\ UNCHANGED <<memo, modalStates, ctxState, launches, clears, closeVoid, uncaught,
                 saveTrace, mode, rst, userDataDir, remoteEndpoint, cdpEndpoint, engineCall, env, writableDirs, launchDir>>
  /\ UNCHANGED raceVars
  /\ UNCHANGED <<cap, captured, ld, ctxStore, profile, dl>>

\* bringToFront of line 82 resolved, or rejected (line 457)
RestoreSelected(ok) ==
  /\ rs.pc = "select"
  /\ ok => currentTab # NoTab /\ pageSt[currentTab] = "open"
  /\ RestoreEnds(rs.p, rs.failed \/ ~ok, tabs, currentTab, pageSt, pageCtx)
  /\ UNCHANGED <<memo, modalStates, ctxState, launches, clears, closeVoid, uncaught,
                 saveTrace, mode, rst, userDataDir, remoteEndpoint, cdpEndpoint, engineCall, env, writableDirs, launchDir>>
  /\ UNCHANGED raceVars
  /\ UNCHANGED <<cap, captured, ld, pageUrl, ctxStore, profile, dl>>

\* ------------------------------- browser_load_state (tools, 157-217)
\* the tool is called for a state file that exists and parses to snap; lines
\* 178 and 188 read it
LoadCall(snap, restart) ==
  /\ ld.pc = "idle"
  /\ ld' = [pc |-> "reading", snap |-> snap, restart |-> restart]
  /\ UNCHANGED dl
  /\ UNCHANGED <<memo, tabs, currentTab, modalStates, pstate, ctxState, launches, clears,
                 closeSt, closeVoid, uncaught, pageSt, pageCtx, saveTrace, mode, calls,
                 rst, userDataDir, remoteEndpoint, cdpEndpoint, engineCall, env, writableDirs, launchDir>>
  /\ UNCHANGED raceVars
  /\ UNCHANGED <<savedState, cap, captured, rs, pageUrl, ctxStore, profile, carry, downloads>>

\* the file was read: line 191 installs the snapshot through the savedState
\* setter, and with restart line 194 calls resetBrowserContext(false, false),
\* followed here to its first I/O
LoadRead ==
  /\ ld.pc = "reading"
  /\ rst.pc = "idle"
  /\ ld' = IdleLd
  /\ UNCHANGED dl
  /\ IF ld.restart
     THEN RestartFromClose([RestartArgs(FALSE, FALSE) EXCEPT !.loaded = ld.snap], ld.snap)
     ELSE /\ savedState' = ld.snap
          /\ carry' = "none"
          /\ UNCHANGED downloads
          /\ UNCHANGED <<rst, memo, clears, tabs, currentTab, modalStates, closeSt,
                         closeVoid, pageSt, uncaught>>
  /\ UNCHANGED <<pstate, ctxState, launches, pageCtx, saveTrace, mode, calls, userDataDir, remoteEndpoint, cdpEndpoint, engineCall, env, writableDirs, launchDir>>
  /\ UNCHANGED raceVars
  /\ UNCHANGED <<cap, captured, rs, pageUrl, ctxStore, profile>>

\* ------------------------------------------- the session a page carries
\* the current tab is navigated to URL u
Navigate(u) ==
  /\ currentTab # NoTab
  /\ pageSt[currentTab] = "open"
  /\ pageUrl[currentTab] # u
  /\ pageUrl' = [pageUrl EXCEPT ![currentTab] = u]
  /\ UNCHANGED <<memo, tabs, currentTab, modalStates, pstate, ctxState, launches, clears,
                 closeSt, closeVoid, uncaught, pageSt, pageCtx, saveTrace, mode, calls,
                 rst, userDataDir, remoteEndpoint, cdpEndpoint, engineCall, env, writableDirs, launchDir>>
  /\ UNCHANGED raceVars
  /\ UNCHANGED <<savedState, cap, captured, rs, ld, ctxStore, profile, carry, downloads, dl>>

\* a script of the current tab writes the value to a cookie or to persistent
\* storage: of the profile directory, or of the tab's context
WriteValue ==
  /\ currentTab # NoTab
  /\ pageSt[currentTab] = "open"
  /\ ~Readable(pageCtx[currentTab])
  /\ IF mode = "persistent"
     THEN profile' = TRUE /\ UNCHANGED ctxStore
     ELSE ctxStore' = [ctxStore EXCEPT ![pageCtx[currentTab]] = TRUE] /\ UNCHANGED profile
  /\ UNCHANGED <<memo, tabs, currentTab, modalStates, pstate, ctxState, launches, clears,
                 closeSt, closeVoid, uncaught, pageSt, pageCtx, saveTrace, mode, calls,
                 rst, userDataDir, remoteEndpoint, cdpEndpoint, engineCall, env, writableDirs, launchDir>>
  /\ UNCHANGED raceVars
  /\ UNCHANGED <<savedState, cap, captured, rs, ld, pageUrl, carry, downloads, dl>>

\* ------------------------------------------------------ selectTab (80-83)
\* line 81; an index out of range leaves no current tab, and line 82 throws
SelectTab(idx) ==
  /\ currentTab' = At0(tabs, idx - 1)
  /\ UNCHANGED <<memo, tabs, modalStates, pstate, ctxState, launches, clears, closeSt,
                 closeVoid, uncaught, pageSt, pageCtx, saveTrace, mode, calls, rst, userDataDir, remoteEndpoint, cdpEndpoint, engineCall, env, writableDirs, launchDir>>
  /\ UNCHANGED raceVars
  /\ UNCHANGED snapVars

\* =================================================== run (lines 108-201)
\* a run() invocation: pc is where it is suspended, tab the tab of line 144,
\* wait / snap the tool's waitForNetwork / captureSnapshot, act the tool
\* action's promise, won what settled its race ("dialog", or the action's
\* "ok" / "failed"), failing a pending exception, out what it hands to the
\* tool layer when it ends. reqs, nav, barrier, listening and timer are the
\* locals of its waitForCompletion; issued records the requests the page
\* started while the action was running, and navInAction that the navigation
\* was observed while the action was running.
\* For a tool without action, tool is its name, h the promise its close()
\* captured and bare whether the registry was empty when it was called.
IdleRun ==
  [pc |-> "idle", tab |-> NoTab, wait |-> FALSE, snap |-> FALSE, act |-> "none",
   won |-> "none", failing |-> FALSE, reqs |-> {}, issued |-> {}, nav |-> "no",
   barrier |-> FALSE, listening |-> FALSE, timer |-> "off", out |-> "none",
   tool |-> "none", h |-> NoPromise, bare |-> FALSE, navInAction |-> FALSE]

InitRace ==
  /\ pendingAction = NoRun
  /\ run = [r \in RunIds |-> IdleRun]
  /\ lastReturn = [won |-> "none", out |-> "none"]
  /\ dialogOn = [g \in Pages |-> FALSE]
  /\ reqSt = [q \in Requests |-> "unissued"]
  /\ reqPage = [q \in Requests |-> NoTab]

\* setModalState, lines 50-52
SetModalState(ms, type, inTab) == Append(ms, [type |-> type, tab |-> inTab])

\* _javaScriptBlocked, lines 224-226
JavaScriptBlocked(ms) == \E i \in 1..Len(ms) : ms[i].type = "dialog"

\* _raceAgainstModalDialogs, the finally of lines 219-221: the slot is cleared
\* whichever race had registered it
SlotAfterRace_OwnOnly(slot, r) == IF slot = r THEN NoRun ELSE slot

SlotAfterRace(slot, r) == NoRun

\* run() returns, or throws, to the tool layer
Return(rn, out) == [IdleRun EXCEPT !.out = out, !.won = rn.won]

\* invocation r goes on as rec; one that has ended leaves its outcome
Commit(r, rec) ==
  /\ run' = [run EXCEPT ![r] = IF rec.pc = "idle" THEN IdleRun ELSE rec]
  /\ lastReturn' = IF rec.pc = "idle" THEN [won |-> rec.won, out |-> rec.out]
                   ELSE lastReturn

\* lines 157-200: with a modal state on the stack the report of lines 163-173
\* is returned at once; otherwise the page report awaits tab.title()
Respond(rn, ms) == IF ms # <<>> THEN Return(rn, "modal") ELSE [rn EXCEPT !.pc = "report"]

\* the finally of lines 153-156, ignoring the exception in flight
RunFinally_Swallows(rn, ms, threw) ==
  IF rn.snap /\ ~JavaScriptBlocked(ms)
  THEN [rn EXCEPT !.pc = "snapshot", !.failing = FALSE]
  ELSE Respond(rn, ms)

\* the finally of lines 153-156, entered normally or with an exception in
\* flight, then lines 157-200
RunFinally(rn, ms, threw) ==
  IF rn.snap /\ ~JavaScriptBlocked(ms)
  THEN [rn EXCEPT !.pc = "snapshot", !.failing = threw]
  ELSE IF threw THEN Return(rn, "threw") ELSE Respond(rn, ms)

Dispose_Nothing(rn) == rn

\* waitForCompletion dispose(), lines 265-270
Dispose(rn) ==
  [rn EXCEPT !.listening = FALSE, !.timer = IF rn.timer = "armed" THEN "off" ELSE rn.timer]

\* context.waitForTimeout, lines 202-210: a host timer, or a timer in the page
DelayStage(ms, cur) == IF cur = NoTab \/ JavaScriptBlocked(ms) THEN "delayHost" ELSE "delayPage"

\* waitForCompletion lines 275-276: past the barrier, the fixed delay begins
PassBarrier(rn, ms, cur) == [rn EXCEPT !.barrier = TRUE, !.pc = DelayStage(ms, cur)]

\* waitCallback(): the barrier resolves, and a waiter suspended on it goes on
ResolveBarrier(rn, ms, cur) ==
  IF rn.pc = "barrier" THEN PassBarrier(rn, ms, cur) ELSE [rn EXCEPT !.barrier = TRUE]

\* waitForCompletion lines 273-275, once callback() has resolved
AfterCallback(rn, ms, cur) ==
  IF rn.barrier \/ (rn.reqs = {} /\ rn.nav = "no")
  THEN PassBarrier(rn, ms, cur)
  ELSE [rn EXCEPT !.pc = "barrier"]

\* the race of line 217 settles, by the dialog signal or by the action: the
\* continuation of _raceAgainstModalDialogs, of waitForCompletion (a rejection
\* leaves through its finally) and of run()
RaceSettle(rn, how, ms, cur) ==
  LET r1 == [rn EXCEPT !.won = how, !.act = IF how = "dialog" THEN rn.act ELSE how]
  IN IF how = "failed" THEN RunFinally(IF rn.wait THEN Dispose(r1) ELSE r1, ms, TRUE)
     ELSE IF rn.wait THEN AfterCallback(r1, ms, cur)
     ELSE RunFinally(r1, ms, FALSE)

\* a run id that is free for a new invocation
Startable(r) == run[r].pc = "idle"

\* run() of a tool with an action, up to its first I/O. Without a current tab
\* lines 117-126 return; otherwise waitForCompletion (lines 261-264, when
\* waitForNetwork) subscribes and arms its timer, and
\* _raceAgainstModalDialogs (lines 212-217) registers its signal in the slot
\* and starts the action.
RunCall(r, wait, snap) ==
  /\ Startable(r)
  /\ \A r2 \in RunIds : r2 < r => ~Startable(r2)
  /\ IF currentTab = NoTab
     THEN /\ Commit(r, Return(run[r], "noPages"))
          /\ UNCHANGED pendingAction
     ELSE /\ Commit(r, [IdleRun EXCEPT !.pc = "racing", !.tab = currentTab, !.wait = wait,
                                       !.snap = snap, !.act = "running",
                                       !.listening = wait,
                                       !.timer = IF wait THEN "armed" ELSE "off"])
          /\ pendingAction' = r
  /\ UNCHANGED <<modalStates, dialogOn, reqSt, reqPage>>
  /\ UNCHANGED sessionVars
  /\ UNCHANGED snapVars

\* line 116: the tools run() lets through without a current tab
AllowWithoutTabs == {"browser_restart", "browser_close"}

\* run() of a tool without action once tool.handle has returned, lines
\* 111-156: the result override is returned first; without a current tab the
\* tool gets the trace of its code or the "No open pages available" text;
\* otherwise the tab-dependent part follows with nothing to race or wait for
AfterToolHandle(rn, override, ms, cur) ==
  IF override THEN Return(rn, "override")
  ELSE IF cur = NoTab
  THEN Return(rn, IF rn.tool \in AllowWithoutTabs THEN "trace" ELSE "noPages")
  ELSE RunFinally([rn EXCEPT !.tab = cur], ms, FALSE)

\* run() of a tool whose handle returns a resultOverride without any I/O
RunOverride(r) ==
  /\ Startable(r)
  /\ \A r2 \in RunIds : r2 < r => ~Startable(r2)
  /\ Commit(r, AfterToolHandle([IdleRun EXCEPT !.tool = "other", !.bare = (tabs = <<>>)],
                               TRUE, modalStates, currentTab))
  /\ UNCHANGED <<pendingAction, modalStates, dialogOn, reqSt, reqPage>>
  /\ UNCHANGED sessionVars
  /\ UNCHANGED snapVars

\* run() of browser_close: the handle awaits context.close() (tools, line 28),
\* which returns at once when nothing is memoized
RunCloseTool(r) ==
  /\ Startable(r)
  /\ \A r2 \in RunIds : r2 < r => ~Startable(r2)
  /\ LET rec == [IdleRun EXCEPT !.tool = "browser_close", !.bare = (tabs = <<>>)]
     IN IF memo = NoPromise
        THEN /\ Commit(r, AfterToolHandle(rec, FALSE, modalStates, currentTab))
             /\ UNCHANGED <<memo, clears, closeVoid, closeSt, pageSt, uncaught>>
        ELSE /\ CloseEffect(memo, FALSE, pageSt)
             /\ Commit(r, [rec EXCEPT !.pc = "handle", !.h = memo])
  /\ UNCHANGED <<tabs, currentTab, modalStates, pstate, ctxState, launches, pageCtx,
                 saveTrace, mode, calls, rst, userDataDir, remoteEndpoint, cdpEndpoint, engineCall, env, writableDirs, launchDir>>
  /\ UNCHANGED <<pendingAction, dialogOn, reqSt, reqPage>>
  /\ UNCHANGED snapVars

\* the close() of browser_close returned, or rejected: the handle does not
\* catch, and run() throws at line 110
RunCloseToolReturns(r) ==
  /\ run[r].pc = "handle"
  /\ run[r].tool = "browser_close"
  /\ closeSt[run[r].h] \in {"done", "threw"}
  /\ Commit(r, IF closeSt[run[r].h] = "threw" THEN Return(run[r], "threw")
                ELSE AfterToolHandle(run[r], FALSE, modalStates, currentTab))
  /\ UNCHANGED <<pendingAction, modalStates, dialogOn, reqSt, reqPage>>
  /\ UNCHANGED sessionVars
  /\ UNCHANGED snapVars

\* run() of browser_restart: the handle awaits resetBrowserContext (tools,
\* line 57), followed here to its first I/O as in RestartCall
RunRestartTool(r, cleanProfile, preserveState) ==
  /\ Startable(r)
  /\ \A r2 \in RunIds : r2 < r => ~Startable(r2)
  /\ rst.pc = "idle"
  /\ IF preserveState /\ memo # NoPromise
     THEN /\ rst' = [RestartArgs(cleanProfile, preserveState) EXCEPT
                       !.pc = "capture", !.p = memo]
          /\ UNCHANGED <<memo, clears, tabs, currentTab, modalStates, closeSt,
                         closeVoid, pageSt, uncaught, savedState, carry, downloads>>
     ELSE RestartFromClose(RestartArgs(cleanProfile, preserveState), savedState)
  /\ LET rec == [IdleRun EXCEPT !.tool = "browser_restart", !.bare = (tabs = <<>>)]
     IN IF rst'.pc = "idle"
        THEN Commit(r, AfterToolHandle(rec, FALSE, modalStates', currentTab'))
        ELSE Commit(r, [rec EXCEPT !.pc = "handle"])
  /\ UNCHANGED <<pstate, ctxState, launches, pageCtx, saveTrace, mode, calls, userDataDir, remoteEndpoint, cdpEndpoint, engineCall, env, writableDirs, launchDir>>
  /\ UNCHANGED <<pendingAction, dialogOn, reqSt, reqPage>>
  /\ UNCHANGED <<cap, captured, rs, ld, pageUrl, ctxStore, profile, dl>>

\* resetBrowserContext returned, or rejected, which the handle catches (tools,
\* lines 65-72): either way it returns its code
RunRestartToolReturns(r) ==
  /\ run[r].pc = "handle"
  /\ run[r].tool = "browser_restart"
  /\ rst.pc = "idle"
  /\ Commit(r, AfterToolHandle(run[r], FALSE, modalStates, currentTab))
  /\ UNCHANGED <<pendingAction, modalStates, dialogOn, reqSt, reqPage>>
  /\ UNCHANGED sessionVars
  /\ UNCHANGED snapVars

\* engine: page g raises a dialog; its tab calls dialogShown (lines 227-234),
\* which pushes the modal state and resolves the signal held by the slot
DialogShown(g) ==
  /\ pageSt[g] = "open"
  /\ ~dialogOn[g]
  /\ dialogOn' = [dialogOn EXCEPT ![g] = TRUE]
  /\ modalStates' = SetModalState(modalStates, "dialog", g)
  /\ IF pendingAction # NoRun /\ run[pendingAction].pc = "racing"
     THEN /\ Commit(pendingAction,
                    RaceSettle(run[pendingAction], "dialog", modalStates', currentTab))
          /\ pendingAction' = SlotAfterRace(pendingAction, pendingAction)
     ELSE UNCHANGED <<run, lastReturn, pendingAction>>
  /\ UNCHANGED <<reqSt, reqPage>>
  /\ UNCHANGED sessionVars
  /\ UNCHANGED snapVars

\* engine: the action's promise settles while its race is undecided
ActionSettles(r, ok) ==
  /\ run[r].pc = "racing"
  /\ run[r].act = "running"
  /\ Commit(r, RaceSettle(run[r], IF ok THEN "ok" ELSE "failed", modalStates, currentTab))
  /\ pendingAction' = SlotAfterRace(pendingAction, r)
  /\ UNCHANGED <<modalStates, dialogOn, reqSt, reqPage>>
  /\ UNCHANGED sessionVars
  /\ UNCHANGED snapVars

\* engine: the action's promise settles after a dialog has won its race,
\* while run() is still in flight; the assignment of line 217 to `result` is
\* never read
ActionSettlesLate(r, ok) ==
  /\ run[r].pc \notin {"racing", "idle"}
  /\ run[r].act = "running"
  /\ run' = [run EXCEPT ![r].act = IF ok THEN "ok" ELSE "failed"]
  /\ UNCHANGED <<pendingAction, lastReturn, modalStates, dialogOn, reqSt, reqPage>>
  /\ UNCHANGED sessionVars
  /\ UNCHANGED snapVars

\* ------------------------------------- waitForCompletion (utils, 236-282)
\* requestListener, line 243, of a waiter subscribed on the page of request q
OnRequest(rn, q) == [rn EXCEPT !.reqs = @ \cup {q}]

\* requestFinishedListener, lines 244-248
OnRequestFinished(rn, q, ms, cur) ==
  LET r1 == [rn EXCEPT !.reqs = @ \ {q}]
  IN IF r1.reqs = {} THEN ResolveBarrier(r1, ms, cur) ELSE r1

\* frameNavigateListener, lines 249-256, for a top-level frame
OnFrameNavigated(rn) ==
  Dispose([rn EXCEPT !.nav = "loading", !.navInAction = (rn.pc = "racing")])

OnTimeout_DisposeOnly(rn, ms, cur) == [Dispose(rn) EXCEPT !.timer = "fired"]

\* onTimeout, lines 257-260
OnTimeout(rn, ms, cur) == ResolveBarrier([Dispose(rn) EXCEPT !.timer = "fired"], ms, cur)

\* the least request not yet issued
NextRequest == CHOOSE q \in Requests : reqSt[q] = "unissued" /\ \A q2 \in Requests : reqSt[q2] = "unissued" => q <= q2

\* engine: page g starts a request; 'request' reaches the subscribed waiters
RequestStarts(g) ==
  /\ pageSt[g] = "open"
  /\ \E q \in Requests : reqSt[q] = "unissued"
  /\ LET q == NextRequest IN
       /\ reqSt' = [reqSt EXCEPT ![q] = "inflight"]
       /\ reqPage' = [reqPage EXCEPT ![q] = g]
       /\ run' = [r \in RunIds |->
                    IF run[r].tab = g /\ run[r].pc # "idle"
                    THEN LET r1 == IF run[r].listening THEN OnRequest(run[r], q) ELSE run[r]
                         IN IF run[r].pc = "racing" THEN [r1 EXCEPT !.issued = @ \cup {q}] ELSE r1
                    ELSE run[r]]
  /\ UNCHANGED <<pendingAction, lastReturn, modalStates, dialogOn>>
  /\ UNCHANGED sessionVars
  /\ UNCHANGED snapVars

\* engine: request q finishes; 'requestfinished' reaches the subscribed waiters
RequestFinishes(q) ==
  /\ reqSt[q] = "inflight"
  /\ pageSt[reqPage[q]] = "open"
  /\ reqSt' = [reqSt EXCEPT ![q] = "finished"]
  /\ run' = [r \in RunIds |->
               IF run[r].listening /\ run[r].tab = reqPage[q]
               THEN OnRequestFinished(run[r], q, modalStates, currentTab)
               ELSE run[r]]
  /\ UNCHANGED <<pendingAction, lastReturn, modalStates, dialogOn, reqPage>>
  /\ UNCHANGED sessionVars
  /\ UNCHANGED snapVars

\* engine: request q fails; waitForCompletion does not subscribe to
\* 'requestfailed'
RequestFails(q) ==
  /\ reqSt[q] = "inflight"
  /\ reqSt' = [reqSt EXCEPT ![q] = "failed"]
  /\ UNCHANGED <<pendingAction, run, lastReturn, modalStates, dialogOn, reqPage>>
  /\ UNCHANGED sessionVars
  /\ UNCHANGED snapVars

\* engine: the main frame of page g navigates
FrameNavigated(g) ==
  /\ pageSt[g] = "open"
  /\ \E r \in RunIds : run[r].listening /\ run[r].tab = g
  /\ run' = [r \in RunIds |->
               IF run[r].listening /\ run[r].tab = g THEN OnFrameNavigated(run[r])
               ELSE run[r]]
  /\ UNCHANGED <<pendingAction, lastReturn, modalStates, dialogOn, reqSt, reqPage>>
  /\ UNCHANGED sessionVars
  /\ UNCHANGED snapVars

\* engine: the load state awaited by line 255 is reached; waitCallback runs
LoadCompleted(r) ==
  /\ run[r].nav = "loading"
  /\ run' = [run EXCEPT ![r] = ResolveBarrier([@ EXCEPT !.nav = "loaded"], modalStates, currentTab)]
  /\ UNCHANGED <<pendingAction, lastReturn, modalStates, dialogOn, reqSt, reqPage>>
  /\ UNCHANGED sessionVars
  /\ UNCHANGED snapVars

\* the timer of line 264 fires
Timeout(r) ==
  /\ run[r].timer = "armed"
  /\ run' = [run EXCEPT ![r] = OnTimeout(@, modalStates, currentTab)]
  /\ UNCHANGED <<pendingAction, lastReturn, modalStates, dialogOn, reqSt, reqPage>>
  /\ UNCHANGED sessionVars
  /\ UNCHANGED snapVars

\* context.waitForTimeout(1000) of line 276 returned, or its evaluation in the
\* page failed; waitForCompletion leaves through its finally (line 280) and
\* run() goes on at line 153
DelayElapsed(r, ok) ==
  /\ run[r].pc \in {"delayHost", "delayPage"}
  /\ ok \/ run[r].pc = "delayPage"
  /\ Commit(r, RunFinally(Dispose(run[r]), modalStates, ~ok))
  /\ UNCHANGED <<pendingAction, modalStates, dialogOn, reqSt, reqPage>>
  /\ UNCHANGED sessionVars
  /\ UNCHANGED snapVars

\* tab.captureSnapshot() of line 155 returned or threw
SnapshotDone(r, ok) ==
  /\ run[r].pc = "snapshot"
  /\ Commit(r, IF run[r].failing \/ ~ok THEN Return(run[r], "threw")
                ELSE Respond(run[r], modalStates))
  /\ UNCHANGED <<pendingAction, modalStates, dialogOn, reqSt, reqPage>>
  /\ UNCHANGED sessionVars
  /\ UNCHANGED snapVars

\* the page report of lines 174-200 was built, or reading the page threw
ReportDone(r, ok) ==
  /\ run[r].pc = "report"
  /\ Commit(r, Return(run[r], IF ok THEN "page" ELSE "threw"))
  /\ UNCHANGED <<pendingAction, modalStates, dialogOn, reqSt, reqPage>>
  /\ UNCHANGED sessionVars
  /\ UNCHANGED snapVars

\* ------------------------------------------------------------ life cycle
\* the bounds of Spec: calls in flight, launches and pages
MayCall == BagCardinality(calls) < MaxCallers /\ (MemoHit \/ Objects < MaxObjects)

MayCreatePage == Objects < MaxObjects

NextLife ==
  \/ MayCall /\ (NewTab \/ EnsureTab)
  \/ \E rec \in BagToSet(calls) : MayCreatePage /\ EngineNewPage(rec)
  \/ \E rec \in BagToSet(calls) : EngineNewPageFails(rec)
  \/ \E p \in Promises : LaunchFails(p) \/ ContextClosed(p)
  \/ \E p \in Promises : (mode = "persistent" => MayCreatePage) /\ LaunchSucceeds(p)
  \/ \E p \in Promises, ok \in BOOLEAN : SetupTraced(p, ok) \/ TracingStopped(p, ok)
  \/ \E idx \in 0..MaxTabs : CloseTab(idx)
  \/ \E g \in Pages : PageCloses(g) \/ PageClosedEvent(g)
  \/ CloseCall
  \/ \E clean \in BOOLEAN, preserve \in BOOLEAN : RestartCall(clean, preserve)
  \/ RestartCaptured \/ RestartClosed \/ RestartCloseThrew
  \/ \E removed \in BOOLEAN : RestartCleaned(removed)

InitSpec == InitLife /\ InitRace /\ InitSnap

Spec == InitSpec /\ [][NextLife]_vars

\* ---------------------------------------------------------- tab registry
\* sequential newTab / selectTab / closeTab on an isolated session
InitTabs == InitLife /\ InitRace /\ InitSnap /\ ~saveTrace /\ mode = "isolated"

MayOpenTab == \E g \in Pages : pageSt[g] = "free"

NextTabs ==
  \/ calls = EmptyBag /\ (MemoHit \/ launches < MaxObjects) /\ NewTab
  \/ \E rec \in BagToSet(calls) : MayOpenTab /\ EngineNewPage(rec)
  \/ \E rec \in BagToSet(calls) : EngineNewPageFails(rec)
  \/ \E p \in Promises : LaunchSucceeds(p)
  \/ \E p \in Promises : ContextClosed(p)
  \/ \E idx \in 1..MaxTabs : SelectTab(idx)
  \/ \E idx \in 0..MaxTabs : CloseTab(idx)
  \/ \E g \in Pages : PageCloses(g)
  \/ \E g \in Pages : PageClosedEvent(g)

SpecTabs == InitTabs /\ [][NextTabs]_vars

\* ------------------------------------------------- run() against dialogs
\* one persistent session whose tabs are opened one call at a time, pages
\* closing at any time, and overlapping run() invocations of tools with an
\* action; no request and no navigation is observed and the actions settle
\* before the timer of waitForCompletion fires
InitRun == InitLife /\ InitRace /\ InitSnap /\ ~saveTrace /\ mode = "persistent"

MayCreateRacePage == PagesCreated < MaxRacePages

NextRace ==
  \/ calls = EmptyBag /\ launches = 0 /\ EnsureTab
  \/ calls = EmptyBag /\ MemoHit /\ MayCreateRacePage /\ NewTab
  \/ \E p \in Promises : LaunchSucceeds(p)
  \/ \E rec \in BagToSet(calls) : MayCreateRacePage /\ EngineNewPage(rec)
  \/ \E rec \in BagToSet(calls) : EngineNewPageFails(rec)
  \/ \E p \in Promises : ContextClosed(p)
  \/ \E g \in Pages : PageCloses(g)
  \/ \E g \in Pages : PageClosedEvent(g)
  \/ \E r \in RunIds, wait \in BOOLEAN, snap \in BOOLEAN : RunCall(r, wait, snap)
  \/ \E g \in Pages : DialogShown(g)
  \/ \E r \in RunIds, ok \in BOOLEAN : ActionSettles(r, ok)
  \/ \E r \in RunIds, ok \in BOOLEAN : ActionSettlesLate(r, ok)
  \/ \E r \in RunIds, ok \in BOOLEAN : DelayElapsed(r, ok)
  \/ \E r \in RunIds, ok \in BOOLEAN : SnapshotDone(r, ok)
  \/ \E r \in RunIds, ok \in BOOLEAN : ReportDone(r, ok)

SpecRace == InitRun /\ [][NextRace]_vars

\* ------------------------------------------ run() waiting for the network
\* one invocation at a time, of a tool that waits for the network and takes
\* no snapshot, on the first page of a persistent session
NoRunInFlight == \A r \in RunIds : run[r].pc = "idle"

NextWait ==
  \/ launches = 0 /\ EnsureTab
  \/ \E p \in Promises : LaunchSucceeds(p)
  \/ \E r \in RunIds : NoRunInFlight /\ RunCall(r, TRUE, FALSE)
  \/ \E g \in Pages : (\E r \in RunIds : run[r].tab = g /\ run[r].pc # "idle") /\ RequestStarts(g)
  \/ \E q \in Requests : RequestFinishes(q)
  \/ \E q \in Requests : RequestFails(q)
  \/ \E g \in Pages : FrameNavigated(g)
  \/ \E r \in RunIds : LoadCompleted(r)
  \/ \E r \in RunIds : Timeout(r)
  \/ \E r \in RunIds, ok \in BOOLEAN : ActionSettles(r, ok)
  \/ \E r \in RunIds, ok \in BOOLEAN : DelayElapsed(r, ok)
  \/ \E r \in RunIds, ok \in BOOLEAN : ReportDone(r, ok)

SpecWait == InitRun /\ [][NextWait]_vars

\* the host's timers fire: the timer of line 264 while it is armed, and the
\* fixed delay of line 276
SpecWaitFair ==
  SpecWait /\ \A r \in RunIds : WF_vars(Timeout(r)) /\ WF_vars(DelayElapsed(r, TRUE))

\* --------------------------------------------- session state, SpecState
\* the tools are called one at a time, each running to its end before the
\* next: newTab / ensureTab, navigation, selectTab,
\* browser_restart and browser_load_state, on a session without tracing
\* whose pages stay open until the coordinator closes them.
InitState == InitLife /\ InitRace /\ InitSnap /\ ~saveTrace

\* a state file browser_load_state can be given
Files ==
  {[set |-> TRUE, storage |-> "value", tabs |-> <<[url |-> "a"]>>, cur |-> 0]}

CreationInFlight == \E p \in Promises : pstate[p] \in {"launching", "restoring", "tracing"}

CloseInFlight == \E p \in Promises : closeSt[p] \in {"awaitPromise", "stopTracing", "closingCtx"}

\* no call and no teardown is in flight
Quiet ==
  /\ calls = EmptyBag
  /\ rst.pc = "idle" /\ cap.pc = "idle" /\ rs.pc = "idle" /\ ld.pc = "idle"
  /\ ~CreationInFlight
  /\ ~CloseInFlight

NextState ==
  \/ Quiet /\ MayOpenTab /\ (MemoHit \/ launches < MaxObjects) /\ (NewTab \/ EnsureTab)
  \/ \E p \in Promises : LaunchSucceeds(p) \/ LaunchRestores(p)
  \/ \E rec \in BagToSet(calls) : MayOpenTab /\ EngineNewPage(rec)
  \/ \E ok \in BOOLEAN : RestoreFirstNavigated(ok) \/ RestoreNewPage(ok)
  \/ \E ok \in BOOLEAN : RestoreNavigated(ok) \/ RestoreSelected(ok)
  \/ \E u \in Urls : Quiet /\ currentTab # NoTab /\ pageUrl[currentTab] = Blank /\ Navigate(u)
  \/ Quiet /\ WriteValue
  \/ \E idx \in 1..MaxTabs : Quiet /\ idx <= Len(tabs) /\ SelectTab(idx)
  \/ \E ok \in BOOLEAN : CaptureStorage(ok) \/ CaptureTab(ok)
  \/ \E clean \in BOOLEAN : Quiet /\ RestartPreserving(clean)
  \/ \E clean \in BOOLEAN, preserve \in BOOLEAN :
       Quiet /\ ~(preserve /\ memo # NoPromise) /\ RestartCall(clean, preserve)
  \/ RestartClosed
  \/ \E removed \in BOOLEAN : RestartCleaned(removed)
  \/ \E snap \in Files, restart \in BOOLEAN : Quiet /\ LoadCall(snap, restart)
  \/ LoadRead
  \/ \E p \in Promises : ContextClosed(p)
  \/ \E g \in Pages : PageClosedEvent(g)

SpecState == InitState /\ [][NextState]_vars

\* ------------------------------------------ state capture, SpecCapture
\* captureCurrentState is called at any time the handle is Idle or Live, on
\* a session without tracing; while it runs tabs open, pages close on their
\* own and the tools go on being called
InitCapture == InitState /\ mode = "isolated"

MayOpenCaptureTab == PagesCreated < MaxCapturePages

NextCapture ==
  \/ /\ calls = EmptyBag
     /\ MayOpenCaptureTab
     /\ MemoHit \/ launches < MaxObjects
     /\ NewTab \/ EnsureTab
  \/ \E p \in Promises : LaunchSucceeds(p)
  \/ \E rec \in BagToSet(calls) : MayOpenCaptureTab /\ EngineNewPage(rec)
  \/ \E u \in Urls : cap.pc = "idle" /\ currentTab # NoTab /\ pageUrl[currentTab] = Blank
                     /\ Navigate(u)
  \/ \E idx \in 1..MaxTabs : cap.pc = "idle" /\ idx <= Len(tabs) /\ SelectTab(idx)
  \/ CaptureCall
  \/ \E ok \in BOOLEAN : CaptureStorage(ok) \/ CaptureTab(ok)
  \/ \E p \in Promises : ContextClosed(p)
  \/ \E g \in Pages : PageCloses(g) \/ PageClosedEvent(g)

SpecCapture == InitCapture /\ [][NextCapture]_vars

\* ------------------------------------ dialogs and evaluation, SpecBlocked
\* tools run one at a time on the pages of an isolated session without
\* tracing, pages raise dialogs at any time, and captureCurrentState is
\* called while the handle is Live
NextBlocked ==
  \/ calls = EmptyBag /\ launches = 0 /\ EnsureTab
  \/ calls = EmptyBag /\ MemoHit /\ MayCreateRacePage /\ NewTab
  \/ \E p \in Promises : LaunchSucceeds(p)
  \/ \E rec \in BagToSet(calls) : MayCreateRacePage /\ EngineNewPage(rec)
  \/ \E g \in Pages : DialogShown(g)
  \/ \E r \in RunIds, wait \in BOOLEAN, snap \in BOOLEAN :
       NoRunInFlight /\ cap.pc = "idle" /\ RunCall(r, wait, snap)
  \/ \E r \in RunIds, ok \in BOOLEAN : ActionSettles(r, ok)
  \/ \E r \in RunIds, ok \in BOOLEAN : DelayElapsed(r, ok)
  \/ \E r \in RunIds, ok \in BOOLEAN : SnapshotDone(r, ok)
  \/ \E r \in RunIds, ok \in BOOLEAN : ReportDone(r, ok)
  \/ NoRunInFlight /\ memo # NoPromise /\ CaptureCall
  \/ \E ok \in BOOLEAN : CaptureStorage(ok) \/ CaptureTab(ok)

SpecBlocked == InitCapture /\ [][NextBlocked]_vars

\* -------------------------------- the creation strategy, SpecEndpoint
\* the first handle creation of a session without tracing, for any values of
\* the remote and CDP endpoint settings; mode tells whether the session is
\* configured isolated
InitEndpoint ==
  /\ InitFields /\ InitEnv /\ InitRace /\ InitSnap
  /\ ~saveTrace
  /\ mode \in {"persistent", "isolated"}
  /\ userDataDir = NoDir
  /\ remoteEndpoint \in EndpointValues
  /\ cdpEndpoint \in EndpointValues

NextEndpoint ==
  \/ calls = EmptyBag /\ launches = 0 /\ EnsureTab
  \/ \E p \in Promises : LaunchSucceeds(p) \/ LaunchFails(p)
  \/ \E rec \in BagToSet(calls) : EngineNewPage(rec)

SpecEndpoint == InitEndpoint /\ [][NextEndpoint]_vars

\* ----------------------- the user data directory, SpecUserDataDir
\* the first launch of a persistent chromium session without tracing and
\* without a configured userDataDir, in any environment and on any file system
EnvDirs == {<<Sep, "m">>, <<Sep, "c">>, <<Sep, "m", Sep, "c">>, <<Sep, "m", Sep>>}

InitUserDataDir ==
  /\ InitFields /\ InitEndpoints /\ InitRace /\ InitSnap
  /\ ~saveTrace
  /\ mode = "persistent"
  /\ userDataDir = NoDir
  /\ env \in [EnvVars -> EnvDirs \cup {NoDir}]
  /\ writableDirs \in SUBSET ({PathResolve(d) : d \in EnvDirs} \cup {DefaultProfileDir})
  /\ launchDir = NoDir

NextUserDataDir ==
  \/ calls = EmptyBag /\ launches = 0 /\ EnsureTab
  \/ \E p \in Promises : UserDataDirCreated(p)
  \/ \E p \in Promises : launchDir # NoDir /\ (LaunchSucceeds(p) \/ LaunchFails(p))

SpecUserDataDir == InitUserDataDir /\ [][NextUserDataDir]_vars

\* ------------------------------------ the tab registry, SpecRegistry
\* a session without tracing: tabs are opened, selected by the index of a
\* registered tab and closed, pages close on their own and raise dialogs,
\* and the session is closed and restarted, the calls overlapping
InitRegistry == InitSpec /\ ~saveTrace

NextRegistry ==
  \/ /\ BagCardinality(calls) < MaxCallers
     /\ MayOpenCaptureTab
     /\ MemoHit \/ launches < MaxObjects
     /\ NewTab \/ EnsureTab
  \/ \E p \in Promises : MayOpenCaptureTab /\ LaunchSucceeds(p)
  \/ \E rec \in BagToSet(calls) : MayOpenCaptureTab /\ EngineNewPage(rec)
  \/ \E rec \in BagToSet(calls) : EngineNewPageFails(rec)
  \/ \E idx \in 1..MaxTabs : idx <= Len(tabs) /\ SelectTab(idx)
  \/ \E idx \in 0..MaxTabs : CloseTab(idx)
  \/ \E g \in Pages : PageCloses(g) \/ PageClosedEvent(g)
  \/ \E g \in Pages : DialogShown(g)
  \/ CloseCall
  \/ \E p \in Promises : ContextClosed(p)
  \/ \E clean \in BOOLEAN, preserve \in BOOLEAN : RestartCall(clean, preserve)
  \/ RestartCaptured \/ RestartClosed
  \/ \E removed \in BOOLEAN : RestartCleaned(removed)

SpecRegistry == InitRegistry /\ [][NextRegistry]_vars

\* ------------------------------- restart and dialogs, SpecRestartFair
\* browser_restart called between the other tools of a session without
\* tracing whose pages raise dialogs at any time
NextRestart ==
  \/ Quiet /\ MayOpenCaptureTab /\ (MemoHit \/ launches < MaxObjects) /\ (NewTab \/ EnsureTab)
  \/ \E p \in Promises : LaunchSucceeds(p)
  \/ \E rec \in BagToSet(calls) : MayOpenCaptureTab /\ EngineNewPage(rec)
  \/ \E g \in Pages : DialogShown(g)
  \/ Quiet /\ WriteValue
  \/ \E clean \in BOOLEAN : Quiet /\ RestartPreserving(clean)
  \/ \E clean \in BOOLEAN, preserve \in BOOLEAN :
       Quiet /\ ~(preserve /\ memo # NoPromise) /\ RestartCall(clean, preserve)
  \/ \E ok \in BOOLEAN : CaptureStorage(ok) \/ CaptureTab(ok)
  \/ RestartClosed
  \/ \E removed \in BOOLEAN : RestartCleaned(removed)
  \/ \E p \in Promises : ContextClosed(p)
  \/ \E g \in Pages : PageClosedEvent(g)

SpecRestart == InitState /\ [][NextRestart]_vars

\* every engine call and file-system call that can settle does settle
SpecRestartFair ==
  /\ SpecRestart
  /\ WF_vars(\E ok \in BOOLEAN : CaptureStorage(ok))
  /\ WF_vars(\E ok \in BOOLEAN : CaptureTab(ok))
  /\ WF_vars(RestartClosed)
  /\ WF_vars(\E removed \in BOOLEAN : RestartCleaned(removed))
  /\ \A p \in Promises : WF_vars(ContextClosed(p))
  /\ \A g \in Pages : WF_vars(PageClosedEvent(g))

\* ------------------------------------------------- reopening, SpecClose
\* ensureTab and close() are called one after the other, the next call being
\* made at any time, also while a creation or a teardown is still running;
\* with and without tracing, in every launch mode
NextClose ==
  \/ /\ calls = EmptyBag
     /\ MayOpenTab
     /\ MemoHit \/ launches < MaxObjects
     /\ EnsureTab
  \/ \E p \in Promises : MayOpenTab /\ LaunchSucceeds(p)
  \/ \E p \in Promises, ok \in BOOLEAN : SetupTraced(p, ok) \/ TracingStopped(p, ok)
  \/ \E rec \in BagToSet(calls) : MayOpenTab /\ EngineNewPage(rec)
  \/ \E rec \in BagToSet(calls) : EngineNewPageFails(rec)
  \/ CloseCall
  \/ \E p \in Promises : ContextClosed(p)
  \/ \E g \in Pages : PageClosedEvent(g)

SpecClose == InitSpec /\ [][NextClose]_vars

\* ------------------------------------------------ downloads, SpecDownloads
NewEntry_Finished(d) == [id |-> d, finished |-> TRUE]

\* the entry of lines 236-240, once outputFile has resolved
NewEntry(d) == [id |-> d, finished |-> FALSE]

\* line 243, `entry.finished = true`: the entry object is marked, in the log
\* if the log still holds it
MarkFinished(log, d) ==
  [i \in 1..Len(log) |-> IF log[i].id = d THEN [log[i] EXCEPT !.finished = TRUE]
                         ELSE log[i]]

\* engine: a page of the session signals a download; its tab calls
\* downloadStarted, which awaits outputFile (line 239)
DownloadStarted(d) ==
  /\ dl[d] = "none"
  /\ \A d2 \in Downloads : d2 < d => dl[d2] # "none"
  /\ tabs # <<>>
  /\ dl' = [dl EXCEPT ![d] = "naming"]
  /\ UNCHANGED <<savedState, cap, captured, rs, ld, pageUrl, ctxStore, profile, carry,
                 downloads>>
  /\ UNCHANGED <<modalStates, sessionVars>>
  /\ UNCHANGED raceVars

\* outputFile resolved: the entry is pushed onto whatever array _downloads is
\* now and saveAs begins (lines 241-242); or it rejected and the call ends
OutputFileDone(d, ok) ==
  /\ dl[d] = "naming"
  /\ IF ok
     THEN /\ downloads' = Append(downloads, NewEntry(d))
          /\ dl' = [dl EXCEPT ![d] = "saving"]
     ELSE /\ dl' = [dl EXCEPT ![d] = "failed"]
          /\ UNCHANGED downloads
  /\ UNCHANGED <<savedState, cap, captured, rs, ld, pageUrl, ctxStore, profile, carry>>
  /\ UNCHANGED <<modalStates, sessionVars>>
  /\ UNCHANGED raceVars

\* download.saveAs settled: line 243 runs only when it resolved
SaveAsDone(d, ok) ==
  /\ dl[d] = "saving"
  /\ IF ok
     THEN /\ downloads' = MarkFinished(downloads, d)
          /\ dl' = [dl EXCEPT ![d] = "saved"]
     ELSE /\ dl' = [dl EXCEPT ![d] = "failed"]
          /\ UNCHANGED downloads
  /\ UNCHANGED <<savedState, cap, captured, rs, ld, pageUrl, ctxStore, profile, carry>>
  /\ UNCHANGED <<modalStates, sessionVars>>
  /\ UNCHANGED raceVars

\* downloads of the session's pages while the session is created, closed and
\* restarted, on a session without tracing
InitDownloads == InitSpec /\ ~saveTrace

NextDownloads ==
  \/ /\ calls = EmptyBag
     /\ MayOpenTab
     /\ MemoHit \/ launches < MaxObjects
     /\ EnsureTab
  \/ \E p \in Promises : LaunchFails(p) \/ (MayOpenTab /\ LaunchSucceeds(p))
  \/ \E rec \in BagToSet(calls) : MayOpenTab /\ EngineNewPage(rec)
  \/ \E p \in Promises : ContextClosed(p)
  \/ \E g \in Pages : PageClosedEvent(g)
  \/ \E clean \in BOOLEAN : RestartCall(clean, FALSE)
  \/ RestartClosed \/ RestartCloseThrew
  \/ \E removed \in BOOLEAN : RestartCleaned(removed)
  \/ \E d \in Downloads : DownloadStarted(d)
  \/ \E d \in Downloads, ok \in BOOLEAN : OutputFileDone(d, ok) \/ SaveAsDone(d, ok)

SpecDownloads == InitDownloads /\ [][NextDownloads]_vars

\* -------------------------------------------- profile cleanup, SpecProfile
\* restart of a coordinator with or without a session, for every configured
\* userDataDir that is an absolute path
ConfigDirs ==
  {NoDir} \cup {d \in UNION {[1..n -> PathChars] : n \in 1..MaxPathLen} : d[1] = Sep}

InitProfile ==
  InitFields /\ InitEnv /\ InitEndpoints /\ InitRace /\ InitSnap /\ ~saveTrace /\ userDataDir \in ConfigDirs

NextProfile ==
  \/ /\ calls = EmptyBag
     /\ MayOpenTab
     /\ MemoHit \/ launches < MaxObjects
     /\ EnsureTab
  \/ \E p \in Promises : MayOpenTab /\ LaunchSucceeds(p)
  \/ \E rec \in BagToSet(calls) : MayOpenTab /\ EngineNewPage(rec)
  \/ \E p \in Promises : ContextClosed(p)
  \/ \E g \in Pages : PageClosedEvent(g)
  \/ \E clean \in BOOLEAN : RestartCall(clean, FALSE)
  \/ RestartClosed
  \/ \E removed \in BOOLEAN : RestartCleaned(removed)

SpecProfile == InitProfile /\ [][NextProfile]_vars

\* ------------------------------------------------- tool runs, SpecTools
\* run() of browser_close, browser_restart, a tool that returns a result
\* override and a tool with an action, one run at a time, while ensureTab
\* creates the session; with and without tracing, in every launch mode
NextTools ==
  \/ /\ calls = EmptyBag
     /\ MayOpenTab
     /\ MemoHit \/ launches < MaxObjects
     /\ EnsureTab
  \/ \E p \in Promises : LaunchFails(p) \/ (MayOpenTab /\ LaunchSucceeds(p))
  \/ \E p \in Promises, ok \in BOOLEAN : SetupTraced(p, ok) \/ TracingStopped(p, ok)
  \/ \E rec \in BagToSet(calls) : MayOpenTab /\ EngineNewPage(rec)
  \/ \E rec \in BagToSet(calls) : EngineNewPageFails(rec)
  \/ \E p \in Promises : ContextClosed(p)
  \/ \E g \in Pages : PageClosedEvent(g)
  \/ \E r \in RunIds : NoRunInFlight /\ (RunCloseTool(r) \/ RunOverride(r))
  \/ \E r \in RunIds, clean \in BOOLEAN, preserve \in BOOLEAN :
       NoRunInFlight /\ RunRestartTool(r, clean, preserve)
  \/ \E r \in RunIds, wait \in BOOLEAN :
       NoRunInFlight /\ currentTab = NoTab /\ RunCall(r, wait, FALSE)
  \/ \E r \in RunIds : RunCloseToolReturns(r) \/ RunRestartToolReturns(r)
  \/ \E r \in RunIds, ok \in BOOLEAN : ReportDone(r, ok)
  \/ RestartCaptured \/ RestartClosed \/ RestartCloseThrew
  \/ \E removed \in BOOLEAN : RestartCleaned(removed)

SpecTools == InitSpec /\ [][NextTools]_vars

\* =================================================================== claims
\* C1: single-flight handle creation. Between two drops of the memoized
\* promise (close, restart, failed creation) at most one launch/connect is
\* started, and all the calls of newTab/ensureTab made in that period hold the
\* same promise, hence receive the same handle.
C1_SingleFlight ==
  /\ launches <= clears + 1
  /\ \A r1 \in BagToSet(calls), r2 \in BagToSet(calls) : r1.epoch = r2.epoch => r1.p = r2.p

\* two concurrent callers were both handed the context of the only launch
C1_Witness ==
  /\ launches = 1
  /\ BagCardinality(calls) = 2
  /\ \A r \in BagToSet(calls) : r.p = memo /\ r.pc = "awaitNewPage"

\* C2: at every moment at most one browser context created by the coordinator
\* is open (created and not yet fully closed).
C2_AtMostOneContextOpen == Cardinality({p \in Promises : ctxState[p] = "open"}) <= 1

\* C3: a failed creation is reported to every caller awaiting it and drops the
\* memoized promise, so that the memoized promise is never a failed one; the
\* failure of an older attempt leaves a newer memoized attempt in place.
C3_FailureResetsMemo ==
  /\ [](memo # NoPromise => pstate[memo] # "rejected")
  /\ [][\A p \in Promises :
          (pstate[p] # "rejected" /\ pstate'[p] = "rejected") =>
             /\ memo' = (IF memo = p THEN NoPromise ELSE memo)
             /\ \A r \in BagToSet(calls') : ~(r.pc = "awaitHandle" /\ r.p = p)
             /\ \A r \in BagToSet(calls) :
                  (r.pc = "awaitHandle" /\ r.p = p) \/ CopiesIn(r, calls') = CopiesIn(r, calls)
       ]_vars

\* an attempt has failed and a later attempt is memoized and in flight
C3_Witness ==
  \E p \in Promises :
    /\ pstate[p] = "rejected"
    /\ memo # NoPromise /\ memo # p /\ pstate[memo] = "launching"

\* C4: when the 'close' event of the current tab's page is handled and the tab
\* sat at 0-based position i, the tab is removed and the current tab becomes
\* the tab at position min(i, count - 1) of the remaining registry, or none
\* when the registry is empty.
C4_CurrentAfterCurrentCloses ==
  [][\A g \in Pages :
       (pageSt[g] = "closing" /\ pageSt'[g] = "closed" /\ currentTab = g /\ IndexOf(tabs, g) # -1) =>
          /\ tabs' = RemoveAt(tabs, IndexOf(tabs, g) + 1)
          /\ currentTab' = IF tabs' = <<>> THEN NoTab
                           ELSE tabs'[Min(IndexOf(tabs, g), Len(tabs') - 1) + 1]
    ]_vars

\* a tab g that was not the last one has closed, and the current tab is the
\* one that followed g and took its position
C4_Witness ==
  \E g \in Pages :
    /\ pageSt[g] = "closed"
    /\ currentTab # NoTab /\ currentTab > g
    /\ IndexOf(tabs, currentTab) >= 1
    /\ IndexOf(tabs, currentTab) < Len(tabs) - 1
    /\ \A i \in 1..Len(tabs) : tabs[i] < g \/ tabs[i] >= currentTab

\* C5 as stated: after the close of any tab, at 0-based position i, the
\* current tab sits at position min(i, remaining - 1), or there is none when
\* the registry is empty.
C5_IndexAfterAnyClose ==
  [][\A g \in Pages :
       (pageSt[g] = "closing" /\ pageSt'[g] = "closed" /\ IndexOf(tabs, g) # -1) =>
          IF tabs' = <<>> THEN currentTab' = NoTab
          ELSE IndexOf(tabs', currentTab') = Min(IndexOf(tabs, g), Len(tabs') - 1)
    ]_vars

\* C5 amended: the rule of C5 gives the current tab's position when the closed
\* tab was the current one; the close of any other tab leaves the current-tab
\* pointer on the tab it was on.
C5_IndexAfterClose ==
  [][\A g \in Pages :
       (pageSt[g] = "closing" /\ pageSt'[g] = "closed" /\ IndexOf(tabs, g) # -1) =>
          IF currentTab # g THEN currentTab' = currentTab
          ELSE IF tabs' = <<>> THEN currentTab' = NoTab
          ELSE IndexOf(tabs', currentTab') = Min(IndexOf(tabs, g), Len(tabs') - 1)
    ]_vars

\* a tab before the current one has closed: the current tab sits beyond the
\* position the closed tab had
C5_Witness ==
  \E g \in Pages :
    /\ pageSt[g] = "closed"
    /\ currentTab # NoTab
    /\ IndexOf(tabs, currentTab) > Cardinality({i \in 1..Len(tabs) : tabs[i] < g})

\* C6: whenever the last open tab closes the handle reference becomes Idle,
\* and the fire-and-forget teardown never raises an uncaught error.
C6_LastTabCloseTearsDown ==
  /\ [][(tabs # <<>> /\ tabs' = <<>> /\ \E g \in Pages : pageSt[g] = "closing" /\ pageSt'[g] = "closed")
          => memo' = NoPromise]_vars
  /\ [](~uncaught)

\* C7: a dialog raised by page g pushes exactly one modal state, of type
\* dialog and owned by g; every step that settles a race leaves the
\* pending-action slot empty, so the slot only ever holds the signal of a race
\* that is undecided; and the action of a pre-empted race settling later
\* touches neither the slot nor the stack.
C7_DialogDuringAction ==
  /\ [][\A g \in Pages :
          (~dialogOn[g] /\ dialogOn'[g]) =>
             modalStates' = Append(modalStates, [type |-> "dialog", tab |-> g])]_vars
  /\ [][\A r \in RunIds :
          (run[r].pc = "racing" /\ run'[r].pc # "racing") => pendingAction' = NoRun]_vars
  /\ [](pendingAction # NoRun => run[pendingAction].pc = "racing")
  /\ [][\A r \in RunIds :
          (run[r].won = "dialog" /\ run[r].act = "running" /\ run'[r].act \in {"ok", "failed"}) =>
             pendingAction' = pendingAction /\ modalStates' = modalStates]_vars

\* a dialog settled the race of an invocation still in flight, its modal state
\* is the only one on the stack, the slot is empty and the pre-empted action
\* has since failed
C7_Witness ==
  \E r \in RunIds :
    /\ run[r].won = "dialog" /\ run[r].act = "failed"
    /\ pendingAction = NoRun
    /\ Len(modalStates) = 1 /\ modalStates[1].type = "dialog"

\* C8: a run() whose race was settled by the dialog signal returns the
\* modal-state report; it does not throw and returns no other response.
C8_DialogWinReturnsModalReport == lastReturn.won = "dialog" => lastReturn.out = "modal"

C10_WaitsForEveryRequest ==
  [][\A r \in RunIds :
       (/\ run[r].wait
        /\ run[r].pc \in {"delayHost", "delayPage"}
        /\ run'[r].pc \notin {"delayHost", "delayPage"}
        /\ ~run'[r].failing
        /\ ~(run'[r].pc = "idle" /\ lastReturn'.out = "threw")) =>
          \/ run[r].timer = "fired"
          \/ run[r].nav # "no"
          \/ \A q \in run[r].issued : reqSt[q] \in {"finished", "failed"}]_vars

\* ------------------------------------------------------------------ C11
\* a resetBrowserContext made with preserveState false returns in this step:
\* from its close or its profile cleanup, or at once when nothing is
\* memoized and no profile is cleaned (browser_load_state makes such a call)
RestartWithoutPreserveReturns ==
  \/ rst.pc # "idle" /\ ~rst.preserve /\ rst'.pc = "idle"
  \/ rst.pc = "idle" /\ rst'.pc = "idle" /\ \E clean \in BOOLEAN : RestartCall(clean, FALSE)
  \/ rst.pc = "idle" /\ rst'.pc = "idle" /\ ld.restart /\ LoadRead

C12_LoadedSnapshotPending ==
  [][/\ (rst.pc # "idle" /\ rst.loaded.set /\ rst'.pc = "idle"
           => savedState' = rst.loaded)
     /\ (rst.pc = "idle" /\ rst'.pc = "idle" /\ ld.restart /\ LoadRead
           => savedState' = ld.snap)]_vars

\* ------------------------------------------------------------------ C13
\* the creation of promise p succeeds in this step, the first one after a
\* restart(cleanProfile=false, preserveState=true) that found the value
\* readable in the session it ended
FirstCreationAfterKeepingRestart(p) ==
  carry = "kept" /\ pstate[p] = "launching" /\ pstate'[p] # "launching"

C14_ValueSurvivesCleaningRestart ==
  [][\A p \in Promises :
       carry = "keptCleaned" /\ pstate[p] = "launching" /\ pstate'[p] # "launching"
       => Readable(p)']_vars

\* ------------------------------------------------------------------ C15
\* C15: captureCurrentState invoked on a coordinator with zero open tabs,
\* whether the handle is Live or Idle, does not throw and returns a snapshot
\* whose tab list is empty. (The registry was empty when the last capture
\* began and the capture read no tab.)
C15_CaptureWithoutTabs ==
  captured.ret # "none" /\ captured.start = <<>> /\ captured.seen = <<>>
    => captured.ret = "state" /\ captured.snap.set /\ captured.snap.tabs = <<>>

\* ------------------------------------------------------------------ C16
\* C16: captureCurrentState never raises to its caller; with a live handle it
\* returns a snapshot whose tab list has exactly one entry per open tab in
\* registry order, the placeholder where reading that tab failed. At the
\* return of a capture begun on a live handle: a state object is returned,
\* with one entry per tab read, the placeholder at the positions whose read
\* failed, and every tab registered from the beginning of the capture to its
\* end has been read.
C16_OneEntryPerOpenTab ==
  [][cap.pc # "idle" /\ cap'.pc = "idle"
       => /\ captured'.ret = "state"
          /\ Len(captured'.snap.tabs) = Len(captured'.seen)
          /\ \A k \in captured'.bad : captured'.snap.tabs[k] = Placeholder
          /\ \A k \in 1..Len(tabs') :
               IndexOf(captured'.start, tabs'[k]) # -1
                 => IndexOf(captured'.seen, tabs'[k]) # -1]_vars

\* ------------------------------------------------------------------ C17
\* _restoreState ends in this step, for promise p, having replayed a snapshot
\* with at least one saved tab without any engine call failing
RestoredWithoutFailure(p) ==
  /\ savedState.set /\ savedState.tabs # <<>>
  /\ pstate[p] \in {"launching", "restoring"}
  /\ pstate'[p] = "fulfilled"
  /\ ~rs'.failed

\* C17: after a restore of a snapshot with N >= 1 saved tabs in which no
\* engine call fails, the registry holds exactly N tabs whose URLs are the
\* saved URLs in saved order, in every launch mode.
C17_RestoreRebuildsTabs ==
  [][\A p \in Promises :
       RestoredWithoutFailure(p)
       => /\ Len(tabs') = Len(savedState.tabs)
          /\ \A k \in 1..Len(tabs') : pageUrl'[tabs'[k]] = savedState.tabs[k].url]_vars

\* ------------------------------------------------------------------ C18
\* C18: after a restart with preserveState=true followed by a handle creation
\* in which no engine call fails, the current tab sits at the saved active
\* index and shows the URL that was saved for the active tab.
C18_RestoreSelectsActiveTab ==
  [][\A p \in Promises :
       carry # "none" /\ RestoredWithoutFailure(p)
       => /\ currentTab' # NoTab
          /\ IndexOf(tabs', currentTab') = savedState.cur
          /\ pageUrl'[currentTab'] = savedState.tabs[savedState.cur + 1].url]_vars

\* ------------------------------------------------------------------ C19
\* an ensureTab call made after a close() returns in this step the tab that
\* is current: its await of promise p ends with a current tab registered
\* (line 86), or the newPage() it awaited resolves (line 87)
EnsureTabReturnsAfterClose(p) ==
  \/ /\ pstate[p] # "fulfilled" /\ pstate'[p] = "fulfilled"
     /\ currentTab' # NoTab
     /\ \E rec \in BagToSet(calls) :
          rec.op = "ensureTab" /\ rec.pc = "awaitHandle" /\ rec.p = p /\ rec.epoch >= 1
  \/ /\ PagesCreated' = PagesCreated + 1
     /\ \E rec \in BagToSet(calls) :
          /\ rec.op = "ensureTab" /\ rec.pc = "awaitNewPage" /\ rec.p = p /\ rec.epoch >= 1
          /\ ~BagIn(rec, calls')

\* C19: close() clears the handle reference before it first suspends, so any
\* ensureTab call made after close() was invoked, even while teardown I/O is
\* still running, starts a fresh creation, and a later navigation works on a
\* new session: the tab the call returns is a tab of the session it created.
C19_ReopenAfterClose ==
  [][/\ \A m \in Promises : closeSt[m] = "none" /\ closeSt'[m] # "none" => memo' = NoPromise
     /\ memo = NoPromise /\ calls' # calls /\ launches' # launches
          => memo' = launches + 1 /\ pstate'[memo'] = "launching"
     /\ \A p \in Promises :
          EnsureTabReturnsAfterClose(p)
          => pageCtx'[currentTab'] = p /\ pageSt'[currentTab'] = "open"]_vars

\* ------------------------------------------------------------------ C20
\* C20: close() is best-effort and never raises to its caller: a failure
\* while stopping tracing, closing the context or closing the underlying
\* process or connection, and a handle whose creation had failed, are all
\* swallowed. No awaited close() ever rejects.
C20_CloseNeverRaises ==
  \A p \in Promises : ~(closeSt[p] = "threw" /\ ~closeVoid[p])

\* ------------------------------------------------------------------ C21
\* C21: every invocation of restart, whatever its arguments and whether or
\* not capture, close or profile cleanup fails, ends with the handle Idle and
\* with the registry, the current-tab pointer and the modal-state stack
\* empty.
C21_RestartEndsReset ==
  [][rst.pc # "idle" /\ rst'.pc = "idle"
       => /\ memo' = NoPromise
          /\ tabs' = <<>>
          /\ currentTab' = NoTab
          /\ modalStates' = <<>>]_vars

\* C22: run() of browser_restart or browser_close called while no tab is open
\* returns a normal response, the trace of the operation when there is still
\* no current tab, never an exception and never the "No open pages available"
\* text; run() of any other tool that ends with no current tab returns that
\* text.
C22_ToolsWithoutTab ==
  [][\A r \in RunIds :
       /\ (run[r].pc = "handle" /\ run[r].bare /\ run'[r].pc = "idle")
            => /\ lastReturn'.out \notin {"threw", "noPages"}
               /\ (currentTab = NoTab => lastReturn'.out = "trace")
       /\ ( /\ tabs = <<>>
            /\ run'[r].pc = "idle"
            /\ \/ RunCloseTool(r)
               \/ \E clean \in BOOLEAN, preserve \in BOOLEAN :
                    RunRestartTool(r, clean, preserve) )
            => lastReturn'.out = "trace"
       /\ ( /\ currentTab = NoTab
            /\ RunOverride(r) \/ \E wait \in BOOLEAN : RunCall(r, wait, FALSE) )
            => lastReturn'.out = "noPages"]_vars

\* the step in which a call of resetBrowserContext returns or throws
RestartResets ==
  /\ \/ rst.pc # "idle"
     \/ \E clean \in BOOLEAN, preserve \in BOOLEAN : RestartCall(clean, preserve)
  /\ rst'.pc = "idle"

\* C23: between restarts the download log is append-only: no entry is removed
\* or reordered, a new entry is unfinished, and the completion flag of an
\* entry only goes from false to true, in the step in which its save
\* completes.
C23_DownloadLogAppendOnly ==
  [][\/ RestartResets /\ downloads' = <<>>
     \/ /\ Len(downloads') >= Len(downloads)
        /\ \A i \in 1..Len(downloads) :
             /\ downloads'[i].id = downloads[i].id
             /\ downloads[i].finished => downloads'[i].finished
             /\ (~downloads[i].finished /\ downloads'[i].finished)
                  => dl[downloads[i].id] = "saving" /\ dl'[downloads[i].id] = "saved"
        /\ \A i \in (Len(downloads) + 1)..Len(downloads') :
             ~downloads'[i].finished]_vars

C23_Witness ==
  /\ clears > 0
  /\ \E i, j \in 1..Len(downloads) : downloads[i].finished /\ ~downloads[j].finished

\* C24: a restart removes a directory only when cleanProfile was requested,
\* the session uses an on-disk profile (not isolated, remote or CDP), and the
\* directory is the "ms-playwright" folder of the cache directory or lies
\* inside it.
C24_RemovesOnlyInsideCache ==
  [][RestartCleaned(TRUE)
       => /\ rst.clean
          /\ mode = "persistent"
          /\ \A dir \in UserDataDirs :
               InCacheLocation(dir) => InsideFolder(dir, MsPlaywrightDir)]_vars

\* C25: in an invocation that asked to wait for the network, when a dialog
\* pre-empts the action the quiescence wait is skipped: run() goes on to its
\* response without waiting for the barrier (requests draining, a navigation
\* loading, the timeout) or for the fixed delay.
C25_DialogSkipsWait ==
  [][\A r \in RunIds :
       (run[r].pc = "racing" /\ run[r].wait /\ run'[r].won = "dialog")
         => run'[r].pc \notin {"barrier", "delayHost", "delayPage"}]_vars

\* C26: once the waiter has observed a top-level navigation during the action
\* it does not return before that navigation's load-complete event, whatever
\* requests started or finished before.
C26_NavigationAwaitsLoad ==
  [][\A r \in RunIds :
       (DelayElapsed(r, TRUE) /\ run[r].navInAction) => run[r].nav # "loading"]_vars

\* where an invocation is while its waitForCompletion has not exited
WaiterStages == {"racing", "barrier", "delayHost", "delayPage"}

\* C27: whenever waitForCompletion exits, by returning or by throwing, after
\* the action, the timeout or a navigation, none of its listeners remains
\* registered on the page and its timer is not armed.
C27_ExitDisposes ==
  [][\A r \in RunIds :
       (run[r].wait /\ run[r].pc \in WaiterStages /\ run'[r].pc \notin WaiterStages)
         => ~run'[r].listening /\ run'[r].timer # "armed"]_vars

C27_Witness ==
  \E r \in RunIds :
    /\ run[r].wait
    /\ run[r].pc = "report"
    /\ run[r].reqs # {}
    /\ run[r].timer = "fired"

C29_ActiveIndexRecorded ==
  [][(/\ cap.pc # "idle" /\ cap'.pc = "idle"
      /\ captured'.ret = "state"
      /\ captured'.start = tabs'
      /\ currentTab' # NoTab)
       => captured'.snap.cur = IndexOf(tabs', currentTab')]_vars

\* C30: once a handle creation that found a pending snapshot has got past
\* its restore, the pending-snapshot slot is empty, whether or not every
\* restore step succeeded.
C30_RestoreEmptiesSlot ==
  [][\A p \in Promises :
       (/\ pstate[p] = "restoring" \/ (pstate[p] = "launching" /\ savedState.set)
        /\ pstate'[p] \in {"tracing", "fulfilled"})
         => ~savedState'.set]_vars

C30_Witness ==
  /\ rs.pc = "idle"
  /\ rs.failed
  /\ ~savedState.set
  /\ memo # NoPromise
  /\ pstate[memo] = "fulfilled"

\* C31: a failure while restoring one saved tab (its page creation or its
\* navigation) does not keep the restore from opening the page of the next
\* saved tab, and no failure inside the restore, a failed re-selection
\* included, makes the handle creation fail: when the restore ends the
\* creation goes on to tracing or is fulfilled.
C31_RestoreToleratesFailures ==
  [][/\ (/\ RestoreFirstNavigated(FALSE) \/ RestoreNewPage(FALSE) \/ RestoreNavigated(FALSE)
         /\ rs.i + 1 < Len(savedState.tabs))
       => rs'.pc = "newPage" /\ rs'.i = rs.i + 1
     /\ (rs.pc # "idle" /\ rs'.pc = "idle")
       => pstate'[rs.p] \in {"tracing", "fulfilled"}]_vars

C31_Witness == rs.pc = "goto" /\ rs.failed /\ rs.i >= 1

\* C32: for a snapshot a preserving restart captured, when the restore has
\* navigated the page of a saved tab whose session storage was not empty,
\* that tab's saved entries were in place before the scripts of the page ran:
\* the initialization script replayed them.
C32_SessionReplayedBeforeScripts ==
  [][/\ (carry # "none" /\ RestoreFirstNavigated(TRUE))
          => EntrySession(savedState.tabs[1]) \subseteq InitScriptEntries(savedState)
     /\ (carry # "none" /\ RestoreNavigated(TRUE))
          => EntrySession(savedState.tabs[rs.i + 1]) \subseteq InitScriptEntries(savedState)]_vars

\* C33: while a dialog-type modal state is on the stack the coordinator starts
\* no evaluation of script in a page: run() does not begin the snapshot
\* capture, waitForTimeout does not begin a timer in the page, and the state
\* capture does not begin the evaluation that reads a tab's session storage.
C33_NoEvaluationWhileDialog ==
  [][(JavaScriptBlocked(modalStates) /\ JavaScriptBlocked(modalStates'))
       => /\ \A r \in RunIds :
               /\ run'[r].pc = "snapshot" => run[r].pc = "snapshot"
               /\ run'[r].pc = "delayPage" => run[r].pc = "delayPage"
          /\ cap'.pc = "tab" => (cap.pc = "tab" /\ cap'.i = cap.i)]_vars

\* a configuration value that is set: the key holds something
Present(v) == v.type # "undefined"

\* a well-formed endpoint string: a string, not empty, not made of spaces
\* only, and parsable as a URL
WellFormed(v) == v.type = "string" /\ Trim(v.s) # <<>> /\ ParsesAsURL(v.s)

\* the endpoint setting the strategy selection looks at: the remote endpoint
\* when it is set, otherwise the CDP endpoint
SelectedEndpoint == IF Present(remoteEndpoint) THEN remoteEndpoint ELSE cdpEndpoint

\* C34: when the endpoint setting the strategy selection looks at is present
\* but is not a well-formed endpoint string (not a string, empty, spaces only,
\* or not parsable as a URL), the handle creation fails and no connect or
\* launch call is issued.
C34_MalformedEndpointFailsFast ==
  (Present(SelectedEndpoint) /\ ~WellFormed(SelectedEndpoint))
    => \A p \in Promises :
         /\ engineCall[p] = "none"
         /\ pstate[p] \in {"unused", "launching", "rejected"}

\* C35: once the user data directory is resolved: when the browser-specific
\* variable PLAYWRIGHT_CHROMIUM_USER_DATA_DIR and a general variable are both
\* set and usable, the browser-specific directory is the one chosen; and with
\* no browser-specific variable set, the general variable that is set first
\* in the order PLAYWRIGHT_USER_DATA_DIR, MCP_USER_DATA_DIR,
\* BROWSER_PROFILE_DIR is the one chosen when it is usable.
C35_BrowserSpecificFirst ==
  LET specific == env["PLAYWRIGHT_CHROMIUM_USER_DATA_DIR"]
      generals == <<"PLAYWRIGHT_USER_DATA_DIR", "MCP_USER_DATA_DIR", "BROWSER_PROFILE_DIR">>
      general == FirstSet(env, generals)
  IN launchDir # NoDir =>
       /\ (/\ Usable(specific, writableDirs)
           /\ \E i \in 1..3 : Usable(env[generals[i]], writableDirs))
            => launchDir = PathResolve(specific)
       /\ (/\ specific = NoDir /\ env["MCP_CHROMIUM_PROFILE_DIR"] = NoDir
           /\ Usable(general, writableDirs))
            => launchDir = PathResolve(general)

\* C36: when run() invocations with actions overlap, every race that is still
\* in flight has its dialog signal in the slot dialogShown resolves, and a
\* dialog a page raises while races are in flight settles each of them.
C36_OverlappingRacesKeepSignal ==
  /\ [](\A r \in RunIds : run[r].pc = "racing" => pendingAction = r)
  /\ [][\A g \in Pages : DialogShown(g)
          => \A r \in RunIds : run[r].pc = "racing" => run'[r].pc # "racing"]_vars

\* C37: a snapshot a preserving restart stashed stays pending until a handle
\* creation consumes it: a step of a further restart(preserveState=true)
\* called while no handle is memoized leaves the pending snapshot as it was.
C37_PendingSnapshotSurvivesRestart ==
  [][(/\ savedState.set
      /\ carry # "none"
      /\ \/ memo = NoPromise /\ \E clean \in BOOLEAN : RestartCall(clean, TRUE)
         \/ /\ rst.pc = "clean" /\ rst.preserve /\ rst.p = NoPromise
            /\ \E removed \in BOOLEAN : RestartCleaned(removed))
       => savedState' = savedState]_vars

\* the ensureTab calls that found no current tab and await the newPage() each
\* of them called (line 87)
EnsureTabsOpening ==
  {rec \in BagToSet(calls) : rec.op = "ensureTab" /\ rec.pc = "awaitNewPage"}

\* C38: ensureTab opens a new page only when there is no current tab, and
\* concurrent ensureTab calls on a coordinator without a current tab open at
\* most one new page together: at most one of them has called newPage().
C38_EnsureTabOpensOnePage ==
  \A rec \in EnsureTabsOpening :
    /\ CopiesIn(rec, calls) = 1
    /\ EnsureTabsOpening = {rec}

\* C39: every restart invocation eventually returns, whatever the state of
\* the coordinator when it is called, given that every engine call on a page
\* no dialog blocks settles.
C39_RestartReturns == (rst.pc # "idle") ~> (rst.pc = "idle")

\* a tab of the registry
Registered(g) == \E i \in 1..Len(tabs) : tabs[i] = g

\* C40: the current-tab pointer is none or a tab of the registry, every modal
\* state is owned by a tab of the registry, and, selectTab being called with
\* indices in range only, the current tab is set whenever the registry is
\* not empty.
C40_RegistryInvariants ==
  /\ currentTab = NoTab \/ Registered(currentTab)
  /\ \A i \in 1..Len(modalStates) : Registered(modalStates[i].tab)
  /\ tabs # <<>> => currentTab # NoTab

====
